---- MODULE Spec2Model ----
(***************************************************************************)
(* A model of the liqwid-hf-monitor worker: the AlertManager cooldown      *)
(* logic over the KV store, the risk classifier, and the scheduled()       *)
(* monitoring cycle.                                                        *)
(*                                                                         *)
(* Time is Date.now(): milliseconds counted from an arbitrary origin.      *)
(* Health factors and thresholds are decimal numbers with one fractional   *)
(* digit, stored multiplied by 10 (1.7 is 17).                              *)
(***************************************************************************)
EXTENDS Integers, Sequences, FiniteSets, TLC

VARIABLES
    now,        \* Date.now()
    ticks,      \* how many times the clock has advanced
    kvBound,    \* whether env.HF_MONITOR_STATE is bound
    kv,         \* the KV namespace: key -> [val, exp]
    lastRec,    \* per loan, the last record recordAlert stored (level, timestamp)
    ret,        \* AlertManager called directly: the last call and what it returned
    envValid,   \* whether env passes envSchema (createEnv returns)
    notionConfigured, \* whether env.NOTION_PRICES_DB_ID is set
    hfWarn,     \* env.HF_WARN
    hfCrit,     \* env.HF_CRIT
    cyc,        \* per invocation of scheduled(): where it is and what it has done
    hfIn,       \* getRiskLevel called directly: healthFactor
    warnIn,     \*   warnThreshold
    critIn,     \*   criticalThreshold
    riskOut,    \*   what it returned
    faults,     \* how many calls to the store, the loan source, the transport and
                \* the mirror have failed so far
    errorAlertAt, \* when sendAlert('error', ...) was last called, NoExp: never
    dispatchLog, \* per loan, the latest warning and critical sendAlert calls: level, time,
                \* whether the alert was delivered
                \* (kept where on is TRUE)
    send,       \* sendAlert called directly: where the call is and what it has done
    cache,      \* the Map of a SimpleCache: key -> entry
    cacheLog,   \* SimpleCache called directly: the last call, and per key the last set
    svc,        \* LiqwidGraphQLService: the last call of getBasicLoans / getDetailedLoans
    adapter,    \* a NotionAdapter: its configuration, its client and its last call
    hfCalc,     \* calculateHealthFactor called directly: the loan and what it returned
    notion      \* a call of NotionClient.updatePriceDatabase: its input and its progress

envVars == <<envValid, notionConfigured, hfWarn, hfCrit>>
riskVars == <<hfIn, warnIn, critIn, riskOut>>
libVars == <<send, cache, cacheLog, svc, adapter, hfCalc, notion>>
vars == <<now, ticks, kvBound, kv, lastRec, ret, envValid, notionConfigured,
          hfWarn, hfCrit, cyc, hfIn, warnIn, critIn, riskOut, faults, errorAlertAt,
          dispatchLog,
          send, cache, cacheLog, svc, adapter, hfCalc, notion>>

-----------------------------------------------------------------------------
(* Program constants *)

COOLDOWN_MS == 10 * 60 * 1000
KV_TTL_SECONDS == 3600

(* Bounds of the model *)

MaxTicks == 2
MaxFaults == 2

Loans == {"L1", "L2"}
AlertLevels == {"info", "warning", "critical", "error"}

assetSymbolOf(loanId) == IF loanId = "L1" THEN "ADA" ELSE "DJED"

-----------------------------------------------------------------------------
(* JavaScript values, as far as the worker handles them *)

Num(n) == [t |-> "number", n |-> n]
NaN == [t |-> "NaN"]
Undefined == [t |-> "undefined"]
JNull == [t |-> "null"]
JStr(s) == [t |-> "string", s |-> s]
Obj(level, timestamp, assetSymbol) ==
    [t |-> "object", level |-> level, timestamp |-> timestamp, assetSymbol |-> assetSymbol]

(* ToNumber, for the operands of a subtraction *)
ToNumber(v) ==
    CASE v.t = "number" -> v
      [] v.t = "null" -> Num(0)
      [] OTHER -> NaN

(* a - b *)
JsSub(a, b) ==
    LET x == ToNumber(a)
        y == ToNumber(b)
    IN IF x.t = "number" /\ y.t = "number" THEN Num(x.n - y.n) ELSE NaN

(* a >= c and a > c for a number a that may be NaN (every comparison with NaN is false) *)
JsGte(a, c) == a.t = "number" /\ a.n >= c
JsGt(a, c) == a.t = "number" /\ a.n > c

(* v.timestamp and v.level: a property read of a primitive other than null is undefined *)
FieldTimestamp(v) == IF v.t = "object" THEN v.timestamp ELSE Undefined
FieldLevel(v) == IF v.t = "object" THEN v.level ELSE Undefined

-----------------------------------------------------------------------------
(* Strings held by the store.  A string is the JSON text of a value, or a   *)
(* text that is no JSON ("" is the empty string).  kv.get gives null for    *)
(* an absent key.                                                           *)

NoValue == [k |-> "null"]
Text(s) == [k |-> "text", s |-> s]
JsonStringify(v) == [k |-> "json", v |-> v]

(* number.toString(): the decimal text, which is also the number's JSON text *)
NumToString(n) == JsonStringify(Num(n))

(* JSON.parse: a SyntaxError on a text that is no JSON *)
JsonParse(s) == IF s.k = "json" THEN [ok |-> TRUE, v |-> s.v] ELSE [ok |-> FALSE]

(* parseInt: the number of a decimal text, NaN for anything else *)
ParseInt(s) == IF s.k = "json" /\ s.v.t = "number" THEN s.v ELSE NaN

(* !s for a string or null *)
Falsy(s) == s = NoValue \/ s = Text("")

-----------------------------------------------------------------------------
(* The KV namespace *)

AlertKey(loanId) == "alert:" \o loanId
AlertKeys == {AlertKey(l) : l \in Loans}
Keys == AlertKeys \cup {"lastPriceUpdateTime", "lastErrorAlertTime"}

(* the expiration of a key that never expires *)
NoExp == 0 - 1
Absent == [val |-> NoValue, exp |-> NoExp]

(* kv.get(key) *)
KvGet(key) == kv[key].val

(* kv.put(key, value, {expirationTtl}) at the current time; ttl = 0: no expiry *)
KvPut(store, key, value, ttlSeconds) ==
    [store EXCEPT ![key] =
        [val |-> value,
         exp |-> IF ttlSeconds = 0 THEN NoExp ELSE now + ttlSeconds * 1000]]

(* the store drops a key once its expiration time is reached *)
Expire(store, time) ==
    [key \in DOMAIN store |->
        IF store[key].exp # NoExp /\ time >= store[key].exp THEN Absent ELSE store[key]]

-----------------------------------------------------------------------------
(* AlertManager *)

(* shouldSendAlert, with > in place of >= in the cooldown comparison *)
shouldSendAlert_strict(loanId, currentLevel, getOk) ==
    IF ~kvBound THEN TRUE
    ELSE IF currentLevel # "warning" /\ currentLevel # "critical" THEN TRUE
    ELSE IF ~getOk THEN TRUE
    ELSE LET storedData == KvGet(AlertKey(loanId)) IN
         IF Falsy(storedData) THEN TRUE
         ELSE LET parsed == JsonParse(storedData) IN
              IF ~parsed.ok THEN TRUE
              ELSE IF parsed.v = JNull THEN TRUE
              ELSE LET timeSinceLastAlert == JsSub(Num(now), FieldTimestamp(parsed.v)) IN
                   IF currentLevel = "critical" /\ FieldLevel(parsed.v) = JStr("warning")
                   THEN TRUE
                   ELSE JsGt(timeSinceLastAlert, COOLDOWN_MS)

(* shouldSendAlert, suppressing every alert when no store is bound *)
shouldSendAlert_failClosed(loanId, currentLevel, getOk) ==
    IF ~kvBound THEN FALSE
    ELSE IF currentLevel # "warning" /\ currentLevel # "critical" THEN TRUE
    ELSE IF ~getOk THEN TRUE
    ELSE LET storedData == KvGet(AlertKey(loanId)) IN
         IF Falsy(storedData) THEN TRUE
         ELSE LET parsed == JsonParse(storedData) IN
              IF ~parsed.ok THEN TRUE
              ELSE IF parsed.v = JNull THEN TRUE
              ELSE IF currentLevel = "critical" /\ FieldLevel(parsed.v) = JStr("warning")
                   THEN TRUE
                   ELSE JsGte(JsSub(Num(now), FieldTimestamp(parsed.v)), COOLDOWN_MS)

(* shouldSendAlert, with an override for every change of level *)
shouldSendAlert_anyChangeOverrides(loanId, currentLevel, getOk) ==
    IF ~kvBound THEN TRUE
    ELSE IF currentLevel # "warning" /\ currentLevel # "critical" THEN TRUE
    ELSE IF ~getOk THEN TRUE
    ELSE LET storedData == KvGet(AlertKey(loanId)) IN
         IF Falsy(storedData) THEN TRUE
         ELSE LET parsed == JsonParse(storedData) IN
              IF ~parsed.ok THEN TRUE
              ELSE IF parsed.v = JNull THEN TRUE
              ELSE IF FieldLevel(parsed.v) # JStr(currentLevel) THEN TRUE
                   ELSE JsGte(JsSub(Num(now), FieldTimestamp(parsed.v)), COOLDOWN_MS)

(* shouldSendAlert, throttling every level *)
shouldSendAlert_throttlesAll(loanId, currentLevel, getOk) ==
    IF ~kvBound THEN TRUE
    ELSE IF ~getOk THEN TRUE
    ELSE LET storedData == KvGet(AlertKey(loanId)) IN
         IF Falsy(storedData) THEN TRUE
         ELSE LET parsed == JsonParse(storedData) IN
              IF ~parsed.ok THEN TRUE
              ELSE IF parsed.v = JNull THEN TRUE
              ELSE IF currentLevel = "critical" /\ FieldLevel(parsed.v) = JStr("warning")
                   THEN TRUE
                   ELSE JsGte(JsSub(Num(now), FieldTimestamp(parsed.v)), COOLDOWN_MS)

(* shouldSendAlert, with half the cooldown *)
shouldSendAlert_halfCooldown(loanId, currentLevel, getOk) ==
    IF ~kvBound THEN TRUE
    ELSE IF currentLevel # "warning" /\ currentLevel # "critical" THEN TRUE
    ELSE IF ~getOk THEN TRUE
    ELSE LET storedData == KvGet(AlertKey(loanId)) IN
         IF Falsy(storedData) THEN TRUE
         ELSE LET parsed == JsonParse(storedData) IN
              IF ~parsed.ok THEN TRUE
              ELSE IF parsed.v = JNull THEN TRUE
              ELSE IF currentLevel = "critical" /\ FieldLevel(parsed.v) = JStr("warning")
                   THEN TRUE
                   ELSE JsGte(JsSub(Num(now), FieldTimestamp(parsed.v)), COOLDOWN_MS \div 2)

(* shouldSendAlert, allowing no further alert while a record is stored *)
shouldSendAlert_onceOnly(loanId, currentLevel, getOk) ==
    IF ~kvBound THEN TRUE
    ELSE IF currentLevel # "warning" /\ currentLevel # "critical" THEN TRUE
    ELSE IF ~getOk THEN TRUE
    ELSE Falsy(KvGet(AlertKey(loanId)))

(* shouldSendAlert, without the escalation override *)
shouldSendAlert_noEscalation(loanId, currentLevel, getOk) ==
    IF ~kvBound THEN TRUE
    ELSE IF currentLevel # "warning" /\ currentLevel # "critical" THEN TRUE
    ELSE IF ~getOk THEN TRUE
    ELSE LET storedData == KvGet(AlertKey(loanId)) IN
         IF Falsy(storedData) THEN TRUE
         ELSE LET parsed == JsonParse(storedData) IN
              IF ~parsed.ok THEN TRUE
              ELSE IF parsed.v = JNull THEN TRUE
              ELSE JsGte(JsSub(Num(now), FieldTimestamp(parsed.v)), COOLDOWN_MS)

(* AlertManager.shouldSendAlert(loanId, currentLevel, _): the boolean it resolves
   to.  getOk = FALSE: kv.get rejects. *)
shouldSendAlert(loanId, currentLevel, getOk) ==
    IF ~kvBound THEN TRUE
    ELSE IF currentLevel # "warning" /\ currentLevel # "critical" THEN TRUE
    ELSE IF ~getOk THEN TRUE                         \* caught: default to sending
    ELSE LET storedData == KvGet(AlertKey(loanId)) IN
         IF Falsy(storedData) THEN TRUE
         ELSE LET parsed == JsonParse(storedData) IN
              IF ~parsed.ok THEN TRUE                \* SyntaxError, caught
              ELSE IF parsed.v = JNull THEN TRUE     \* TypeError on null.timestamp, caught
              ELSE LET lastAlert == parsed.v
                       timeSinceLastAlert == JsSub(Num(now), FieldTimestamp(lastAlert))
                   IN IF currentLevel = "critical" /\ FieldLevel(lastAlert) = JStr("warning")
                      THEN TRUE
                      ELSE IF JsGte(timeSinceLastAlert, COOLDOWN_MS) THEN TRUE
                      ELSE FALSE

(* recordAlert, writing every loan's record under the same key *)
recordAlert_sharedKey(loanId, level, assetSymbol, putOk) ==
    IF ~kvBound THEN kv
    ELSE IF level # "warning" /\ level # "critical" THEN kv
    ELSE IF ~putOk THEN kv
    ELSE KvPut(kv, AlertKey("L1"),
               JsonStringify(Obj(JStr(level), Num(now), JStr(assetSymbol))),
               KV_TTL_SECONDS)

(* recordAlert, with a retention of one second *)
recordAlert_shortRetention(loanId, level, assetSymbol, putOk) ==
    IF ~kvBound THEN kv
    ELSE IF level # "warning" /\ level # "critical" THEN kv
    ELSE IF ~putOk THEN kv
    ELSE KvPut(kv, AlertKey(loanId),
               JsonStringify(Obj(JStr(level), Num(now), JStr(assetSymbol))),
               1)

(* recordAlert, writing nothing *)
recordAlert_noWrite(loanId, level, assetSymbol, putOk) == kv

(* AlertManager.recordAlert(loanId, level, assetSymbol): the store it leaves.
   putOk = FALSE: kv.put rejects, which is caught and logged. *)
recordAlert(loanId, level, assetSymbol, putOk) ==
    IF ~kvBound THEN kv
    ELSE IF level # "warning" /\ level # "critical" THEN kv
    ELSE IF ~putOk THEN kv
    ELSE KvPut(kv, AlertKey(loanId),
               JsonStringify(Obj(JStr(level), Num(now), JStr(assetSymbol))),
               KV_TTL_SECONDS)

(* whether a recordAlert call writes to the store *)
recordAlertWrites(level, putOk) ==
    kvBound /\ level \in {"warning", "critical"} /\ putOk

(* getLastAlert, reading the store without the test for a bound store and
   without the catch clause *)
getLastAlert_unguarded(loanId, getOk) ==
    LET storedData == KvGet(AlertKey(loanId)) IN
    IF Falsy(storedData) THEN JNull
    ELSE LET parsed == JsonParse(storedData) IN
         IF ~parsed.ok THEN JNull ELSE parsed.v

(* AlertManager.getLastAlert(loanId): the record, or JNull *)
getLastAlert(loanId, getOk) ==
    IF ~kvBound THEN JNull
    ELSE IF ~getOk THEN JNull
    ELSE LET storedData == KvGet(AlertKey(loanId)) IN
         IF Falsy(storedData) THEN JNull
         ELSE LET parsed == JsonParse(storedData) IN
              IF ~parsed.ok THEN JNull ELSE parsed.v

-----------------------------------------------------------------------------
(* Numbers of the health-factor scale: tenths, +Infinity and NaN *)

Infinity == [t |-> "Infinity"]

(* a < b on JavaScript numbers *)
JsLt(a, b) ==
    CASE a.t = "number" /\ b.t = "number" -> a.n < b.n
      [] a.t = "number" /\ b.t = "Infinity" -> TRUE
      [] OTHER -> FALSE

DefaultWarnThreshold == 17
DefaultCriticalThreshold == 15

(* getRiskLevel, with <= in place of < in the critical test *)
getRiskLevel_inclusive(healthFactor, warnArg, criticalArg) ==
    LET warnThreshold == IF warnArg = Undefined THEN Num(DefaultWarnThreshold) ELSE warnArg
        criticalThreshold ==
            IF criticalArg = Undefined THEN Num(DefaultCriticalThreshold) ELSE criticalArg
    IN IF JsLt(healthFactor, criticalThreshold) \/ healthFactor = criticalThreshold
       THEN "critical"
       ELSE IF JsLt(healthFactor, warnThreshold) THEN "warning"
       ELSE "safe"

(* getRiskLevel(healthFactor, warnThreshold = 1.7, criticalThreshold = 1.5) *)
getRiskLevel(healthFactor, warnArg, criticalArg) ==
    LET warnThreshold == IF warnArg = Undefined THEN Num(DefaultWarnThreshold) ELSE warnArg
        criticalThreshold ==
            IF criticalArg = Undefined THEN Num(DefaultCriticalThreshold) ELSE criticalArg
    IN IF JsLt(healthFactor, criticalThreshold) THEN "critical"
       ELSE IF JsLt(healthFactor, warnThreshold) THEN "warning"
       ELSE "safe"

-----------------------------------------------------------------------------
(* scheduled(): one monitoring cycle.  An invocation is at a place pc of    *)
(* the handler; between two places it does one awaited call.                *)

Workers == {1, 2}

(* the main try block up to the end of the loan loop (index.ts 53-128) *)
TryPcs == {"createEnv", "fetch", "loop", "shouldSendAlert", "sendAlert", "recordAlert"}
(* the inner try block of the price mirror step (index.ts 132-191) *)
MirrorPcs == {"getLastPriceUpdateTime", "getAssetSymbols", "getPrices",
              "updatePriceDatabase", "putLastPriceUpdateTime"}
(* the try block of the catch clause (index.ts 208-240) *)
ErrorPcs == {"getLastErrorAlertTime", "errCreateEnv", "errSendAlert",
             "putLastErrorAlertTime"}

(* what a cycle has observed and done for one loan *)
NoObs == [seen |-> "none", decision |-> "none", sends |-> 0, level |-> "none",
          delivered |-> "none", wrote |-> "none"]

IdleCycle ==
    [pc |-> "idle", i |-> 0, snapshot |-> <<>>, currentTime |-> 0,
     obs |-> [l \in Loans |-> NoObs], raised |-> {}, visited |-> {},
     mirrorResult |-> "none"]

(* the health factors the loan source reports, in tenths *)
HealthFactors == {Num(14), Num(15), Num(17)}

(* the snapshots fetchLoansSnapshot resolves to: each loan once, in a fixed order *)
Snapshots ==
    { <<[id |-> "L1", healthFactor |-> h1], [id |-> "L2", healthFactor |-> h2]>> :
          h1 \in HealthFactors, h2 \in HealthFactors }

(* the threshold checks, with <= in place of < in the critical test *)
InlineLevel_inclusive(healthFactor) ==
    IF JsLt(healthFactor, Num(hfCrit)) \/ healthFactor = Num(hfCrit) THEN "critical"
    ELSE IF JsLt(healthFactor, Num(hfWarn)) THEN "warning"
    ELSE "none"

(* the threshold checks, with the warning threshold tested first *)
InlineLevel_warnFirst(healthFactor) ==
    IF JsLt(healthFactor, Num(hfWarn)) THEN "warning"
    ELSE IF JsLt(healthFactor, Num(hfCrit)) THEN "critical"
    ELSE "none"

(* the alert level the inline threshold checks of the loop select, "none": no alert *)
InlineLevel(healthFactor) ==
    IF JsLt(healthFactor, Num(hfCrit)) THEN "critical"
    ELSE IF JsLt(healthFactor, Num(hfWarn)) THEN "warning"
    ELSE "none"

(* the place after the loan loop, with the mirror step run whether or not it is
   configured *)
AfterLoop_alwaysMirror == "getLastPriceUpdateTime"

(* the place after the loan loop: the summary and the test of NOTION_PRICES_DB_ID
   (lines 122-131, 197-199) *)
AfterLoop == IF notionConfigured THEN "getLastPriceUpdateTime" ELSE "done"

(* where an error raised at pc is caught, with a failed fetch swallowed and the cycle
   going on after the loop *)
CatchTarget_fetchIgnored(pc) ==
    IF pc = "fetch" THEN AfterLoop
    ELSE IF pc \in TryPcs THEN "getLastErrorAlertTime"
    ELSE IF pc \in MirrorPcs \cup ErrorPcs THEN "done"
    ELSE "rejected"

(* where an error raised at pc is caught, with the error path's own try block removed *)
CatchTarget_errorPathUncaught(pc) ==
    IF pc \in TryPcs THEN "getLastErrorAlertTime"
    ELSE IF pc \in MirrorPcs THEN "done"
    ELSE "rejected"

(* where an error raised at pc is caught, with the mirror step's own try block removed *)
CatchTarget_mirrorUncaught(pc) ==
    IF pc \in TryPcs \cup MirrorPcs THEN "getLastErrorAlertTime"
    ELSE IF pc \in ErrorPcs THEN "done"
    ELSE "rejected"

(* where control goes when an error is raised at pc: to the catch clause of the
   innermost enclosing try block; "rejected": out of scheduled() *)
CatchTarget(pc) ==
    IF pc \in TryPcs THEN "getLastErrorAlertTime"    \* catch (error), line 201
    ELSE IF pc \in MirrorPcs THEN "done"             \* catch (notionError), line 191
    ELSE IF pc \in ErrorPcs THEN "done"              \* catch (alertError), line 240
    ELSE "rejected"

Goto(c, pc) == [c EXCEPT !.pc = pc, !.visited = @ \cup {pc}]

Throw(c) ==
    LET target == CatchTarget(c.pc) IN
    [c EXCEPT !.raised = @ \cup {c.pc}, !.pc = target, !.visited = @ \cup {target}]

(* the loan the loop is at *)
CurLoan(c) == c.snapshot[c.i]
CurLevel(c) == InlineLevel(CurLoan(c).healthFactor)

(* what shouldSendAlert finds under alert:{loanId} *)
SeenOf(loanId, getOk) ==
    IF ~kvBound THEN "nostore"
    ELSE IF ~getOk THEN "unreadable"
    ELSE LET s == KvGet(AlertKey(loanId)) IN
         IF s = NoValue THEN "absent"
         ELSE IF s.k = "json" /\ s.v.t = "object" /\ s.v.level.t = "string"
                 /\ s.v.timestamp.t = "number"
              THEN s.v.level.s
              ELSE "malformed"

(* a call to a collaborator may fail while the run's failures are below MaxFaults *)
Outcomes == IF faults < MaxFaults THEN BOOLEAN ELSE {TRUE}

(* the outcomes of a store call: with no store bound there is no call *)
StoreOutcomes == IF kvBound THEN Outcomes ELSE {TRUE}

Failed(ok) == IF ok THEN faults ELSE faults + 1

(* scheduled() is invoked *)
Start(w) ==
    /\ cyc[w].pc = "idle"
    /\ cyc' = [cyc EXCEPT ![w] = Goto(IdleCycle, "createEnv")]
    /\ UNCHANGED <<now, ticks, kvBound, kv, lastRec, ret, envVars, riskVars, faults, errorAlertAt, dispatchLog, libVars>>

(* createEnv(env), the app config and the clients (lines 55-68) *)
CreateEnv(w) ==
    /\ cyc[w].pc = "createEnv"
    /\ cyc' = [cyc EXCEPT ![w] = IF envValid THEN Goto(@, "fetch") ELSE Throw(@)]
    /\ UNCHANGED <<now, ticks, kvBound, kv, lastRec, ret, envVars, riskVars, faults, errorAlertAt, dispatchLog, libVars>>

(* liqwidClient.fetchLoansSnapshot (lines 72-82) *)
FetchLoans(w) ==
    /\ cyc[w].pc = "fetch"
    /\ \E ok \in Outcomes :
         /\ faults' = Failed(ok)
         /\ IF ok
            THEN \E s \in Snapshots :
                   cyc' = [cyc EXCEPT ![w] =
                             Goto([@ EXCEPT !.snapshot = s, !.i = 1], "loop")]
            ELSE cyc' = [cyc EXCEPT ![w] = Throw(@)]
    /\ UNCHANGED <<now, ticks, kvBound, kv, lastRec, ret, envVars, riskVars, errorAlertAt, dispatchLog, libVars>>

(* the head of the loop and the threshold checks, with the record of a loan that is
   safe removed from the store *)
Classify_clearsWhenSafe(w) ==
    LET c == cyc[w] IN
    /\ c.pc = "loop"
    /\ cyc' = [cyc EXCEPT ![w] =
         IF c.i > Len(c.snapshot) THEN Goto(c, AfterLoop)
         ELSE IF CurLevel(c) = "none"
              THEN [c EXCEPT !.obs[CurLoan(c).id].decision = "safe", !.i = @ + 1]
              ELSE Goto(c, "shouldSendAlert")]
    /\ kv' = IF c.i <= Len(c.snapshot) /\ CurLevel(c) = "none" /\ kvBound
             THEN [kv EXCEPT ![AlertKey(CurLoan(c).id)] = Absent]
             ELSE kv
    /\ UNCHANGED <<now, ticks, kvBound, lastRec, ret, envVars, riskVars, faults, errorAlertAt, dispatchLog, libVars>>

(* the head of the loop and the threshold checks (lines 84-95, 108, 120) *)
Classify(w) ==
    LET c == cyc[w] IN
    /\ c.pc = "loop"
    /\ cyc' = [cyc EXCEPT ![w] =
         IF c.i > Len(c.snapshot) THEN Goto(c, AfterLoop)
         ELSE IF CurLevel(c) = "none"
              THEN [c EXCEPT !.obs[CurLoan(c).id].decision = "safe", !.i = @ + 1]
              ELSE Goto(c, "shouldSendAlert")]
    /\ UNCHANGED <<now, ticks, kvBound, kv, lastRec, ret, envVars, riskVars, faults, errorAlertAt, dispatchLog, libVars>>

(* shouldSendAlert awaited under a lock on the store: it waits while another
   invocation is between its own shouldSendAlert and the end of its recordAlert *)
ShouldSend_locked(w) ==
    LET c == cyc[w]
        id == CurLoan(c).id
    IN
    /\ c.pc = "shouldSendAlert"
    /\ \A v \in Workers \ {w} : cyc[v].pc \notin {"sendAlert", "recordAlert"}
    /\ \E getOk \in StoreOutcomes :
         LET seen == [c EXCEPT !.obs[id].seen = SeenOf(id, getOk)] IN
         /\ faults' = Failed(getOk)
         /\ cyc' = [cyc EXCEPT ![w] =
              IF shouldSendAlert(id, CurLevel(c), getOk)
              THEN Goto([seen EXCEPT !.obs[id].decision = "send"], "sendAlert")
              ELSE Goto([seen EXCEPT !.obs[id].decision = "suppressed", !.i = @ + 1],
                        "loop")]
    /\ UNCHANGED <<now, ticks, kvBound, kv, lastRec, ret, envVars, riskVars, errorAlertAt, dispatchLog, libVars>>

(* shouldSendAlert awaited, with the alert sent whatever it resolves to *)
ShouldSend_ignoresDecision(w) ==
    LET c == cyc[w]
        id == CurLoan(c).id
    IN
    /\ c.pc = "shouldSendAlert"
    /\ \E getOk \in StoreOutcomes :
         LET seen == [c EXCEPT !.obs[id].seen = SeenOf(id, getOk)] IN
         /\ faults' = Failed(getOk)
         /\ cyc' = [cyc EXCEPT ![w] =
              Goto([seen EXCEPT !.obs[id].decision =
                                    IF shouldSendAlert(id, CurLevel(c), getOk)
                                    THEN "send" ELSE "suppressed"],
                   "sendAlert")]
    /\ UNCHANGED <<now, ticks, kvBound, kv, lastRec, ret, envVars, riskVars, errorAlertAt, dispatchLog, libVars>>

(* await alertManager.shouldSendAlert (lines 99, 112; else branch 103, 116) *)
ShouldSend(w) ==
    LET c == cyc[w]
        id == CurLoan(c).id
    IN
    /\ c.pc = "shouldSendAlert"
    /\ \E getOk \in StoreOutcomes :
         LET seen == [c EXCEPT !.obs[id].seen = SeenOf(id, getOk)] IN
         /\ faults' = Failed(getOk)
         /\ cyc' = [cyc EXCEPT ![w] =
              IF shouldSendAlert(id, CurLevel(c), getOk)
              THEN Goto([seen EXCEPT !.obs[id].decision = "send"], "sendAlert")
              ELSE Goto([seen EXCEPT !.obs[id].decision = "suppressed", !.i = @ + 1],
                        "loop")]
    /\ UNCHANGED <<now, ticks, kvBound, kv, lastRec, ret, envVars, riskVars, errorAlertAt, dispatchLog, libVars>>

(* the sendAlert calls the model remembers per loan; a specification that does not
   look at them keeps no log *)
MaxLogged == 3
NoDispatches == [on |-> FALSE, of |-> [l \in Loans |-> <<>>]]
EmptyLog == [on |-> TRUE, of |-> [l \in Loans |-> <<>>]]

(* the log after sendAlert(level, ...) is called for the loan at the current time and
   resolves to delivered *)
Dispatched(loanId, level, delivered) ==
    LET log == Append(dispatchLog.of[loanId],
                      [level |-> level, time |-> now, delivered |-> delivered])
    IN
    IF dispatchLog.on
    THEN [dispatchLog EXCEPT !.of[loanId] = IF Len(log) > MaxLogged THEN Tail(log) ELSE log]
    ELSE dispatchLog

(* sendAlert, with a failed delivery raised as an error *)
SendAlert_abortsOnFailure(w) ==
    LET c == cyc[w]
        id == CurLoan(c).id
    IN
    /\ c.pc = "sendAlert"
    /\ \E ok \in Outcomes :
         LET sent == [c EXCEPT !.obs[id].sends = @ + 1,
                               !.obs[id].level = CurLevel(c),
                               !.obs[id].delivered = IF ok THEN "ok" ELSE "failed"]
         IN
         /\ faults' = Failed(ok)
         /\ dispatchLog' = Dispatched(id, CurLevel(c), ok)
         /\ cyc' = [cyc EXCEPT ![w] = IF ok THEN Goto(sent, "recordAlert") ELSE Throw(sent)]
    /\ UNCHANGED <<now, ticks, kvBound, kv, lastRec, ret, envVars, riskVars, errorAlertAt, libVars>>

(* await sendAlert(level, ...) (lines 100, 113): it resolves to true or false *)
SendAlert(w) ==
    LET c == cyc[w]
        id == CurLoan(c).id
    IN
    /\ c.pc = "sendAlert"
    /\ \E ok \in Outcomes :
         /\ faults' = Failed(ok)
         /\ dispatchLog' = Dispatched(id, CurLevel(c), ok)
         /\ cyc' = [cyc EXCEPT ![w] =
              Goto([c EXCEPT !.obs[id].sends = @ + 1,
                             !.obs[id].level = CurLevel(c),
                             !.obs[id].delivered = IF ok THEN "ok" ELSE "failed"],
                   "recordAlert")]
    /\ UNCHANGED <<now, ticks, kvBound, kv, lastRec, ret, envVars, riskVars, errorAlertAt, libVars>>

(* recordAlert, with a rejected write raised as an error *)
RecordAlert_abortsOnFailure(w) ==
    LET c == cyc[w]
        id == CurLoan(c).id
        level == CurLevel(c)
    IN
    /\ c.pc = "recordAlert"
    /\ \E putOk \in StoreOutcomes :
         LET wrote == [c EXCEPT !.obs[id].wrote =
                                    IF ~kvBound THEN "nostore"
                                    ELSE IF putOk THEN "ok" ELSE "failed"]
         IN
         /\ faults' = Failed(putOk)
         /\ kv' = recordAlert(id, level, assetSymbolOf(id), putOk)
         /\ lastRec' = IF recordAlertWrites(level, putOk)
                       THEN [lastRec EXCEPT ![id] = [level |-> level, timestamp |-> now]]
                       ELSE lastRec
         /\ cyc' = [cyc EXCEPT ![w] =
              IF putOk THEN Goto([wrote EXCEPT !.i = @ + 1], "loop") ELSE Throw(wrote)]
    /\ UNCHANGED <<now, ticks, kvBound, ret, envVars, riskVars, errorAlertAt, dispatchLog, libVars>>

(* recordAlert called only after a delivered alert *)
RecordAlert_onlyDelivered(w) ==
    LET c == cyc[w]
        id == CurLoan(c).id
        level == CurLevel(c)
        delivered == c.obs[id].delivered = "ok"
    IN
    /\ c.pc = "recordAlert"
    /\ \E putOk \in (IF delivered THEN StoreOutcomes ELSE {TRUE}) :
         /\ faults' = Failed(putOk)
         /\ kv' = IF delivered THEN recordAlert(id, level, assetSymbolOf(id), putOk) ELSE kv
         /\ lastRec' = IF delivered /\ recordAlertWrites(level, putOk)
                       THEN [lastRec EXCEPT ![id] = [level |-> level, timestamp |-> now]]
                       ELSE lastRec
         /\ cyc' = [cyc EXCEPT ![w] =
              Goto([c EXCEPT !.obs[id].wrote =
                                 IF ~delivered THEN "none"
                                 ELSE IF ~kvBound THEN "nostore"
                                 ELSE IF putOk THEN "ok" ELSE "failed",
                             !.i = @ + 1],
                   "loop")]
    /\ UNCHANGED <<now, ticks, kvBound, ret, envVars, riskVars, errorAlertAt, dispatchLog, libVars>>

(* await alertManager.recordAlert, alertsSent.push (lines 101-102, 114-115) *)
RecordAlert(w) ==
    LET c == cyc[w]
        id == CurLoan(c).id
        level == CurLevel(c)
    IN
    /\ c.pc = "recordAlert"
    /\ \E putOk \in StoreOutcomes :
         /\ faults' = Failed(putOk)
         /\ kv' = recordAlert(id, level, assetSymbolOf(id), putOk)
         /\ lastRec' = IF recordAlertWrites(level, putOk)
                       THEN [lastRec EXCEPT ![id] = [level |-> level, timestamp |-> now]]
                       ELSE lastRec
         /\ cyc' = [cyc EXCEPT ![w] =
              Goto([c EXCEPT !.obs[id].wrote =
                                 IF ~kvBound THEN "nostore"
                                 ELSE IF putOk THEN "ok" ELSE "failed",
                             !.i = @ + 1],
                   "loop")]
    /\ UNCHANGED <<now, ticks, kvBound, ret, envVars, riskVars, errorAlertAt, dispatchLog, libVars>>

PRICE_UPDATE_INTERVAL_MS == 60 * 60 * 1000
ERROR_ALERT_COOLDOWN_MS == 12 * 60 * 60 * 1000

(* new Date(v).toISOString() throws a RangeError: the skip branch of a throttle builds
   its log line from the stored time (index.ts 187, 236) *)
InvalidDate(v) == v = NaN

(* the throttle test, passing whatever the key holds *)
ThrottleElapsed_always(last, currentTime, interval) == TRUE

(* the throttle test, without the test for an absent key *)
ThrottleElapsed_noAbsent(last, currentTime, interval) ==
    JsGt(JsSub(Num(currentTime), ParseInt(last)), interval)

(* the throttle test, letting the action run when the stored time does not parse *)
ThrottleElapsed_failOpen(last, currentTime, interval) ==
    \/ Falsy(last)
    \/ ParseInt(last) = NaN
    \/ JsGt(JsSub(Num(currentTime), ParseInt(last)), interval)

(* !last || (currentTime - parseInt(last)) > interval  (lines 141, 217) *)
ThrottleElapsed(last, currentTime, interval) ==
    Falsy(last) \/ JsGt(JsSub(Num(currentTime), ParseInt(last)), interval)

(* the read of lastPriceUpdateTime and the throttle test (lines 134-141, 184-190) *)
GetLastPriceUpdateTime(w) ==
    LET c == cyc[w] IN
    /\ c.pc = "getLastPriceUpdateTime"
    /\ \E getOk \in StoreOutcomes :
         /\ faults' = Failed(getOk)
         /\ cyc' = [cyc EXCEPT ![w] =
            IF ~getOk THEN Throw(c)
            ELSE LET last == IF kvBound THEN KvGet("lastPriceUpdateTime") ELSE NoValue IN
                 IF ThrottleElapsed(last, now, PRICE_UPDATE_INTERVAL_MS)
                 THEN Goto([c EXCEPT !.currentTime = now], "getAssetSymbols")
                 ELSE IF InvalidDate(ParseInt(last))
                      THEN Throw([c EXCEPT !.currentTime = now])
                      ELSE Goto([c EXCEPT !.currentTime = now], "done")]
    /\ UNCHANGED <<now, ticks, kvBound, kv, lastRec, ret, envVars, riskVars, errorAlertAt, dispatchLog, libVars>>

(* createNotionAdapter and notionAdapter.getAssetSymbols() (lines 143-156, 181-183):
   it rejects, or resolves to no symbol or to some *)
GetAssetSymbols(w) ==
    LET c == cyc[w] IN
    /\ c.pc = "getAssetSymbols"
    /\ \E outcome \in {"rejects", "empty", "symbols"} :
         /\ outcome = "rejects" => faults < MaxFaults
         /\ faults' = Failed(outcome # "rejects")
         /\ cyc' = [cyc EXCEPT ![w] =
            CASE outcome = "rejects" -> Throw(c)
              [] outcome = "empty" -> Goto(c, "done")
              [] outcome = "symbols" -> Goto(c, "getPrices")]
    /\ UNCHANGED <<now, ticks, kvBound, kv, lastRec, ret, envVars, riskVars, errorAlertAt, dispatchLog, libVars>>

(* priceProvider.getPrices(liqwidSymbols) (lines 158-163) *)
GetPrices(w) ==
    LET c == cyc[w] IN
    /\ c.pc = "getPrices"
    /\ \E ok \in Outcomes :
         /\ faults' = Failed(ok)
         /\ cyc' = [cyc EXCEPT ![w] =
              IF ok THEN Goto(c, "updatePriceDatabase") ELSE Throw(c)]
    /\ UNCHANGED <<now, ticks, kvBound, kv, lastRec, ret, envVars, riskVars, errorAlertAt, dispatchLog, libVars>>

(* notionAdapter.updatePriceDatabase(prices) (lines 167-173): it rejects, or resolves
   to a result with or without failed symbols *)
UpdatePriceDatabase(w) ==
    LET c == cyc[w] IN
    /\ c.pc = "updatePriceDatabase"
    /\ \E outcome \in {"rejects", "allUpdated", "someFailed"} :
         /\ outcome = "rejects" => faults < MaxFaults
         /\ faults' = Failed(outcome # "rejects")
         /\ cyc' = [cyc EXCEPT ![w] =
            IF outcome = "rejects" THEN Throw(c)
            ELSE Goto([c EXCEPT !.mirrorResult = outcome],
                      IF kvBound THEN "putLastPriceUpdateTime" ELSE "done")]
    /\ UNCHANGED <<now, ticks, kvBound, kv, lastRec, ret, envVars, riskVars, errorAlertAt, dispatchLog, libVars>>

(* HF_MONITOR_STATE.put('lastPriceUpdateTime', currentTime.toString()) (lines 174-179) *)
PutLastPriceUpdateTime(w) ==
    LET c == cyc[w] IN
    /\ c.pc = "putLastPriceUpdateTime"
    /\ \E putOk \in Outcomes :
         /\ faults' = Failed(putOk)
         /\ IF putOk
            THEN /\ kv' = KvPut(kv, "lastPriceUpdateTime", NumToString(c.currentTime), 0)
                 /\ cyc' = [cyc EXCEPT ![w] = Goto(c, "done")]
            ELSE /\ kv' = kv
                 /\ cyc' = [cyc EXCEPT ![w] = Throw(c)]
    /\ UNCHANGED <<now, ticks, kvBound, lastRec, ret, envVars, riskVars, errorAlertAt, dispatchLog, libVars>>

(* the catch clause: the read of lastErrorAlertTime and the throttle test
   (lines 202-217, 233-239) *)
GetLastErrorAlertTime(w) ==
    LET c == cyc[w] IN
    /\ c.pc = "getLastErrorAlertTime"
    /\ \E getOk \in StoreOutcomes :
         /\ faults' = Failed(getOk)
         /\ cyc' = [cyc EXCEPT ![w] =
            IF ~getOk THEN Throw(c)
            ELSE LET last == IF kvBound THEN KvGet("lastErrorAlertTime") ELSE NoValue IN
                 IF ThrottleElapsed(last, now, ERROR_ALERT_COOLDOWN_MS)
                 THEN Goto([c EXCEPT !.currentTime = now], "errCreateEnv")
                 ELSE IF InvalidDate(ParseInt(last))
                      THEN Throw([c EXCEPT !.currentTime = now])
                      ELSE Goto([c EXCEPT !.currentTime = now], "done")]
    /\ UNCHANGED <<now, ticks, kvBound, kv, lastRec, ret, envVars, riskVars, errorAlertAt, dispatchLog, libVars>>

(* the catch clause sending with the raw environment, without validating it again *)
ErrCreateEnv_unvalidated(w) ==
    LET c == cyc[w] IN
    /\ c.pc = "errCreateEnv"
    /\ cyc' = [cyc EXCEPT ![w] = Goto(c, "errSendAlert")]
    /\ UNCHANGED <<now, ticks, kvBound, kv, lastRec, ret, envVars, riskVars, faults, errorAlertAt, dispatchLog, libVars>>

(* createEnv(env) in the catch clause (lines 220-224) *)
ErrCreateEnv(w) ==
    LET c == cyc[w] IN
    /\ c.pc = "errCreateEnv"
    /\ cyc' = [cyc EXCEPT ![w] = IF envValid THEN Goto(c, "errSendAlert") ELSE Throw(c)]
    /\ UNCHANGED <<now, ticks, kvBound, kv, lastRec, ret, envVars, riskVars, faults, errorAlertAt, dispatchLog, libVars>>

(* await sendAlert('error', ...) (line 226); what it resolves to is not looked at *)
ErrSendAlert(w) ==
    LET c == cyc[w] IN
    /\ c.pc = "errSendAlert"
    /\ cyc' = [cyc EXCEPT ![w] =
         Goto(c, IF kvBound THEN "putLastErrorAlertTime" ELSE "done")]
    /\ errorAlertAt' = c.currentTime
    /\ UNCHANGED <<now, ticks, kvBound, kv, lastRec, ret, envVars, riskVars, faults, dispatchLog,
                   libVars>>

(* the write of the time of the error alert, with one key for both throttles *)
PutLastErrorAlertTime_sharedKey(w) ==
    LET c == cyc[w] IN
    /\ c.pc = "putLastErrorAlertTime"
    /\ \E putOk \in Outcomes :
         /\ faults' = Failed(putOk)
         /\ IF putOk
            THEN /\ kv' = KvPut(kv, "lastPriceUpdateTime", NumToString(c.currentTime), 0)
                 /\ cyc' = [cyc EXCEPT ![w] = Goto(c, "done")]
            ELSE /\ kv' = kv
                 /\ cyc' = [cyc EXCEPT ![w] = Throw(c)]
    /\ UNCHANGED <<now, ticks, kvBound, lastRec, ret, envVars, riskVars, errorAlertAt, dispatchLog, libVars>>

(* HF_MONITOR_STATE.put('lastErrorAlertTime', currentTime.toString()) (lines 229-232) *)
PutLastErrorAlertTime(w) ==
    LET c == cyc[w] IN
    /\ c.pc = "putLastErrorAlertTime"
    /\ \E putOk \in Outcomes :
         /\ faults' = Failed(putOk)
         /\ IF putOk
            THEN /\ kv' = KvPut(kv, "lastErrorAlertTime", NumToString(c.currentTime), 0)
                 /\ cyc' = [cyc EXCEPT ![w] = Goto(c, "done")]
            ELSE /\ kv' = kv
                 /\ cyc' = [cyc EXCEPT ![w] = Throw(c)]
    /\ UNCHANGED <<now, ticks, kvBound, lastRec, ret, envVars, riskVars, errorAlertAt, dispatchLog, libVars>>

(* scheduled() returns: its promise resolves *)
Finish(w) ==
    /\ cyc[w].pc = "done"
    /\ cyc' = [cyc EXCEPT ![w] = IdleCycle]
    /\ UNCHANGED <<now, ticks, kvBound, kv, lastRec, ret, envVars, riskVars, faults, errorAlertAt, dispatchLog, libVars>>

(* one step of invocation w *)
Cycle(w) ==
    \/ Start(w)
    \/ CreateEnv(w)
    \/ FetchLoans(w)
    \/ Classify(w)
    \/ ShouldSend(w)
    \/ SendAlert(w)
    \/ RecordAlert(w)
    \/ GetLastPriceUpdateTime(w)
    \/ GetAssetSymbols(w)
    \/ GetPrices(w)
    \/ UpdatePriceDatabase(w)
    \/ PutLastPriceUpdateTime(w)
    \/ GetLastErrorAlertTime(w)
    \/ ErrCreateEnv(w)
    \/ ErrSendAlert(w)
    \/ PutLastErrorAlertTime(w)
    \/ Finish(w)

-----------------------------------------------------------------------------
(* The clock *)

(* time passes by d; the store drops the keys that expire *)
Tick(steps, maxTicks) ==
    /\ ticks < maxTicks
    /\ \E d \in steps :
        /\ now' = now + d
        /\ kv' = Expire(kv, now + d)
    /\ ticks' = ticks + 1
    /\ UNCHANGED <<kvBound, errorAlertAt, dispatchLog>>

-----------------------------------------------------------------------------
(* sendAlert (lib/alerts.ts), one HTTP attempt at a time *)

MAX_RETRIES == 3
MaxAttempts == 6

(* what one fetch of the Telegram API comes to: response.ok, status 429, another
   status, or fetch throwing *)
HttpOutcomes == {"ok", "rateLimited", "errorStatus", "networkError"}

(* the Retry-After header of a 429 response *)
RetryAfterHeaders == {NoValue, NumToString(1), Text("soon")}

NoSend == [pc |-> "idle", retries |-> 0, log |-> <<>>, result |-> "none"]

Returned(s, result) == [s EXCEPT !.pc = "returned", !.result = result]

(* while (retries <= MAX_RETRIES) ... return false (lines 42, 94) *)
LoopHead(s) ==
    IF s.retries <= MAX_RETRIES THEN [s EXCEPT !.pc = "attempt"] ELSE Returned(s, "false")

(* the call up to the first test of the loop (lines 29-42) *)
sendAlertBegin(hasToken, hasChatId) ==
    IF ~hasToken \/ ~hasChatId THEN Returned(NoSend, "false")
    ELSE LoopHead(NoSend)

(* one attempt, with a 429 response not counted as a retry *)
sendAlertAttempt_uncounted429(s, outcome) ==
    LET a == [s EXCEPT !.log = Append(@, outcome)] IN
    CASE outcome = "ok" -> Returned(a, "true")
      [] outcome = "rateLimited" -> LoopHead(a)
      [] OTHER ->
            IF a.retries < MAX_RETRIES THEN LoopHead([a EXCEPT !.retries = @ + 1])
            ELSE Returned(a, "false")

(* one attempt, with a successful response followed by one more attempt *)
sendAlertAttempt_resendsAfterOk(s, outcome) ==
    LET a == [s EXCEPT !.log = Append(@, outcome)] IN
    CASE outcome = "ok" ->
            IF a.retries < MAX_RETRIES THEN LoopHead([a EXCEPT !.retries = @ + 1])
            ELSE Returned(a, "true")
      [] outcome = "rateLimited" -> LoopHead([a EXCEPT !.retries = @ + 1])
      [] OTHER ->
            IF a.retries < MAX_RETRIES THEN LoopHead([a EXCEPT !.retries = @ + 1])
            ELSE Returned(a, "false")

(* one pass of the loop body (lines 43-91): the fetch and what follows it, up to the
   next test of the loop or the return *)
sendAlertAttempt(s, outcome) ==
    LET a == [s EXCEPT !.log = Append(@, outcome)] IN
    CASE outcome = "ok" -> Returned(a, "true")                       \* line 62
      [] outcome = "rateLimited" ->                                   \* lines 66-74
            LoopHead([a EXCEPT !.retries = @ + 1])
      [] OTHER ->                                                     \* thrown, lines 78-90
            IF a.retries < MAX_RETRIES THEN LoopHead([a EXCEPT !.retries = @ + 1])
            ELSE Returned(a, "false")

(* how long the pass waits, in ms: Retry-After seconds (30 without the header) after
   a 429, 2^retries seconds after an error that is retried; a delay of NaN is no
   delay *)
sendAlertDelay(s, outcome, header) ==
    CASE outcome = "ok" -> 0
      [] outcome = "rateLimited" ->
            LET retryAfter == ParseInt(IF Falsy(header) THEN NumToString(30) ELSE header)
            IN IF retryAfter.t = "number" THEN retryAfter.n * 1000 ELSE 0
      [] OTHER -> IF s.retries < MAX_RETRIES THEN (2 ^ s.retries) * 1000 ELSE 0

SendCall(hasToken, hasChatId) ==
    /\ send.pc = "idle"
    /\ send' = sendAlertBegin(hasToken, hasChatId)
    /\ UNCHANGED <<now, ticks, kvBound, kv, lastRec, ret, envVars, cyc, riskVars, faults,
                   errorAlertAt, dispatchLog, cache, cacheLog, svc, adapter, hfCalc, notion>>

SendAttempt ==
    /\ send.pc = "attempt"
    /\ Len(send.log) < MaxAttempts
    /\ \E outcome \in HttpOutcomes :
         \E header \in IF outcome = "rateLimited" THEN RetryAfterHeaders ELSE {NoValue} :
            /\ send' = sendAlertAttempt(send, outcome)
            /\ now' = now + sendAlertDelay(send, outcome, header)
    /\ UNCHANGED <<ticks, kvBound, kv, lastRec, ret, envVars, cyc, riskVars, faults,
                   errorAlertAt, dispatchLog, cache, cacheLog, svc, adapter, hfCalc, notion>>

-----------------------------------------------------------------------------
(* SimpleCache (lib/cache/simpleCache.ts) *)

(* the keys of the harness and the keys LiqwidGraphQLService builds for the
   configured payment address *)
BasicKey == "liqwid:basic:addr"
DetailedKey == "liqwid:detailed:addr"
HarnessKeys == {"k1", "k2"}
CacheKeys == HarnessKeys \cup {BasicKey, DetailedKey}

NoEntry == [present |-> FALSE]
EmptyCache == [key \in CacheKeys |-> NoEntry]

(* Date.now() > entry.expiresAt *)
Expired(entry) == now > entry.expiresAt

(* get, with an entry expired from the millisecond of its expiry on *)
cacheGet_expiresAtExpiry(c, key) ==
    IF ~c[key].present THEN Undefined
    ELSE IF now >= c[key].expiresAt THEN Undefined
    ELSE c[key].data

(* get(key): what it returns *)
cacheGet(c, key) ==
    IF ~c[key].present THEN Undefined
    ELSE IF Expired(c[key]) THEN Undefined
    ELSE c[key].data

(* get(key): the Map it leaves, an expired entry being deleted *)
cacheAfterGet(c, key) ==
    IF c[key].present /\ Expired(c[key]) THEN [c EXCEPT ![key] = NoEntry] ELSE c

(* set(key, data, ttlSeconds): the Map it leaves *)
cacheSet(c, key, data, ttlSeconds) ==
    [c EXCEPT ![key] = [present |-> TRUE, data |-> data,
                        expiresAt |-> now + ttlSeconds * 1000]]

(* getExpiry(key) *)
cacheGetExpiry(c, key) ==
    IF c[key].present THEN Num(c[key].expiresAt) ELSE Undefined

NoSet == [set |-> FALSE]
NoCacheCall == [op |-> "none"]
NoCacheLog == [call |-> NoCacheCall, lastSet |-> [key \in CacheKeys |-> NoSet]]

NoSvcCall == [op |-> "none"]
NoAdapter == [op |-> "none"]
NoCalc == [op |-> "none"]

CacheGet(key) ==
    /\ cache' = cacheAfterGet(cache, key)
    /\ cacheLog' = [cacheLog EXCEPT
                       !.call = [op |-> "get", key |-> key, result |-> cacheGet(cache, key)]]
    /\ UNCHANGED <<now, ticks, kvBound, kv, lastRec, ret, envVars, cyc, riskVars, faults,
                   errorAlertAt, dispatchLog, send, svc, adapter, hfCalc, notion>>

CacheSet(key, data, ttlSeconds) ==
    /\ cache' = cacheSet(cache, key, data, ttlSeconds)
    /\ cacheLog' = [cacheLog EXCEPT
                       !.call = [op |-> "set", key |-> key, result |-> Undefined],
                       !.lastSet[key] = [set |-> TRUE, data |-> data, at |-> now,
                                         ttlSeconds |-> ttlSeconds]]
    /\ UNCHANGED <<now, ticks, kvBound, kv, lastRec, ret, envVars, cyc, riskVars, faults,
                   errorAlertAt, dispatchLog, send, svc, adapter, hfCalc, notion>>

CacheGetExpiry(key) ==
    /\ cacheLog' = [cacheLog EXCEPT
                       !.call = [op |-> "getExpiry", key |-> key,
                                 result |-> cacheGetExpiry(cache, key)]]
    /\ UNCHANGED <<now, ticks, kvBound, kv, lastRec, ret, envVars, cyc, riskVars, faults,
                   errorAlertAt, dispatchLog, send, cache, svc, adapter, hfCalc, notion>>

-----------------------------------------------------------------------------
(* LiqwidGraphQLService: getBasicLoans and getDetailedLoans over the cache *)

DefaultMaxAgeSeconds == 60
DefaultCacheTtlSeconds == 60

(* the response of the Liqwid API; of its content the model keeps when it was
   fetched *)
Response(time) == [t |-> "response", fetchedAt |-> time]

(* whether a value counts as true in a condition *)
JsTruthy(v) ==
    /\ v.t \notin {"undefined", "null", "NaN"}
    /\ v # Num(0)
    /\ v # JStr("")

(* isCacheValid(data, maxAgeSeconds = 60) *)
isCacheValid(data, maxAgeArg) ==
    LET maxAgeSeconds == IF maxAgeArg = Undefined THEN Num(DefaultMaxAgeSeconds)
                         ELSE maxAgeArg
    IN IF ~JsTruthy(data) THEN FALSE ELSE TRUE

(* options.cacheTtlSeconds || 60 *)
TtlOrDefault(ttlArg) ==
    IF JsTruthy(ttlArg) THEN ttlArg.n ELSE DefaultCacheTtlSeconds

(* getBasicLoans(addresses, options) and getDetailedLoans(addresses, options), which
   differ in the cache key and the query; fetchOk = FALSE: executeGraphQL rejects *)
GetLoans(detailed, forceRefresh, maxAgeArg, ttlArg, fetchOk) ==
    LET cacheKey == IF detailed THEN DetailedKey ELSE BasicKey
        cachedData == IF forceRefresh THEN Undefined ELSE cacheGet(cache, cacheKey)
        afterGet == IF forceRefresh THEN cache ELSE cacheAfterGet(cache, cacheKey)
        call == [op |-> IF detailed THEN "getDetailedLoans" ELSE "getBasicLoans",
                 forceRefresh |-> forceRefresh, maxCacheAgeSeconds |-> maxAgeArg]
    IN
    /\ IF ~forceRefresh /\ JsTruthy(cachedData) /\ isCacheValid(cachedData, maxAgeArg)
       THEN /\ cache' = afterGet
            /\ svc' = call @@ [source |-> "cache", data |-> cachedData]
       ELSE IF fetchOk
       THEN /\ cache' = cacheSet(afterGet, cacheKey, Response(now), TtlOrDefault(ttlArg))
            /\ svc' = call @@ [source |-> "fresh", data |-> Response(now)]
       ELSE /\ cache' = afterGet
            /\ svc' = call @@ [source |-> "thrown", data |-> Undefined]
    /\ UNCHANGED <<now, ticks, kvBound, kv, lastRec, ret, envVars, cyc, riskVars, faults,
                   errorAlertAt, dispatchLog, send, cacheLog, adapter, hfCalc, notion>>

-----------------------------------------------------------------------------
(* NotionAdapter (lib/adapters/notionAdapter.ts) *)

MaxClientCalls == 3

NoAdapterCall == [op |-> "none"]
Thrown == [kind |-> "thrown"]
SymbolList(list) == [kind |-> "symbols", list |-> list]
UpdateResult(updated, errors) == [kind |-> "result", updated |-> updated, errors |-> errors]

(* what the client's getAssetSymbols and updatePriceDatabase come to: a rejection, or
   the symbols of the database, or the summary of the update with the symbols that
   failed *)
ClientSymbolOutcomes == {Thrown, SymbolList(<<>>), SymbolList(<<"ADA", "DJED">>)}
ClientUpdateOutcomes == {Thrown, UpdateResult(2, <<>>), UpdateResult(1, <<"DJED">>)}

(* what the configuration holds for NOTION_API_TOKEN and NOTION_PRICES_DB_ID *)
ConfigValues == {Undefined, JStr(""), JStr("value")}

(* new NotionAdapter(config): client = null *)
NewAdapter(token, dbId) ==
    [op |-> "created", token |-> token, dbId |-> dbId, client |-> "none",
     clientCalls |-> 0, call |-> NoAdapterCall]

(* ensureClient, looking at the client before the token *)
ensureClient_clientFirst(a) ==
    IF a.client # "none" THEN [outcome |-> "true", client |-> a.client]
    ELSE IF ~JsTruthy(a.token) THEN [outcome |-> "false", client |-> a.client]
    ELSE IF ~JsTruthy(a.dbId) THEN [outcome |-> "throws", client |-> a.client]
    ELSE [outcome |-> "true", client |-> "created"]

(* ensureClient(): false without the token; otherwise true, with the client created
   when there is none, which throws without the database id *)
ensureClient(a) ==
    IF ~JsTruthy(a.token) THEN [outcome |-> "false", client |-> a.client]
    ELSE IF a.client = "none"
         THEN IF ~JsTruthy(a.dbId) THEN [outcome |-> "throws", client |-> a.client]
              ELSE [outcome |-> "true", client |-> "created"]
         ELSE [outcome |-> "true", client |-> a.client]

(* a method that returns degraded when ensureClient() is false and the client's
   answer otherwise *)
AdapterCall(op, degraded, clientOutcome) ==
    LET e == ensureClient(adapter)
        result == CASE e.outcome = "false" -> degraded
                    [] e.outcome = "throws" -> Thrown
                    [] OTHER -> clientOutcome
    IN
    /\ adapter.op = "created"
    /\ e.outcome = "true" => adapter.clientCalls < MaxClientCalls
    /\ adapter' = [adapter EXCEPT
                      !.client = e.client,
                      !.clientCalls = IF e.outcome = "true" THEN @ + 1 ELSE @,
                      !.call = [op |-> op, hadClient |-> adapter.client # "none",
                                calledClient |-> e.outcome = "true",
                                result |-> result]]
    /\ UNCHANGED <<now, ticks, kvBound, kv, lastRec, ret, envVars, cyc, riskVars, faults,
                   errorAlertAt, dispatchLog, send, cache, cacheLog, svc, hfCalc, notion>>

(* createNotionAdapter(config) *)
AdapterCreate(token, dbId) ==
    /\ adapter = NoAdapter
    /\ adapter' = NewAdapter(token, dbId)
    /\ UNCHANGED <<now, ticks, kvBound, kv, lastRec, ret, envVars, cyc, riskVars, faults,
                   errorAlertAt, dispatchLog, send, cache, cacheLog, svc, hfCalc, notion>>

(* setClient(client) *)
AdapterSetClient ==
    /\ adapter.op = "created"
    /\ adapter.client # "set"
    /\ adapter' = [adapter EXCEPT !.client = "set", !.call = NoAdapterCall]
    /\ UNCHANGED <<now, ticks, kvBound, kv, lastRec, ret, envVars, cyc, riskVars, faults,
                   errorAlertAt, dispatchLog, send, cache, cacheLog, svc, hfCalc, notion>>

(* getAssetSymbols() *)
AdapterGetAssetSymbols(clientOutcome) ==
    AdapterCall("getAssetSymbols", SymbolList(<<>>), clientOutcome)

(* updatePriceDatabase(prices) *)
AdapterUpdatePriceDatabase(clientOutcome) ==
    AdapterCall("updatePriceDatabase", UpdateResult(0, <<"all">>), clientOutcome)

-----------------------------------------------------------------------------
(* NotionClient.updatePriceDatabase (clients/notionClient.ts) *)

MaxPrices == 2

(* the asset symbols: the keys of prices and the titles of the rows *)
NotionSymbols == {"ADA", "MIN", "SNEK"}

NoNotionCall == [pc |-> "none"]

(* the keys of prices in the order of Object.entries: no symbol twice *)
PriceKeys ==
    {p \in UNION {[1..n -> NotionSymbols] : n \in 0..MaxPrices} :
        \A a, b \in DOMAIN p : a # b => p[a] # p[b]}

(* updatePriceDatabase(prices) is called: results = { updated: 0, errors: [] } *)
NotionCalled(prices) ==
    [pc |-> "query", prices |-> prices, existingRows |-> {}, i |-> 1, updated |-> 0,
     errors |-> <<>>, requests |-> <<>>]

(* await this.queryPricesDatabase(): it rethrows what fetch or a response that is not
   ok raises, outside of any try block of updatePriceDatabase *)
QueryPricesDatabase ==
    /\ notion.pc = "query"
    /\ \E ok \in BOOLEAN, rows \in SUBSET NotionSymbols :
         notion' = IF ok THEN [notion EXCEPT !.pc = "rows", !.existingRows = rows]
                   ELSE [notion EXCEPT !.pc = "rejected"]
    /\ UNCHANGED <<now, ticks, kvBound, kv, lastRec, ret, envVars, cyc, riskVars, faults,
                   errorAlertAt, dispatchLog, send, cache, cacheLog, svc, adapter, hfCalc>>

(* one pass of the loop, with no try block around the row's request *)
PriceRow_abortsOnFailure ==
    LET symbol == notion.prices[notion.i]
        kind == IF symbol \in notion.existingRows THEN "update" ELSE "create"
    IN
    /\ notion.pc = "rows" /\ notion.i <= Len(notion.prices)
    /\ \E ok \in BOOLEAN :
         notion' = [notion EXCEPT
            !.requests = Append(@, [symbol |-> symbol, kind |-> kind, ok |-> ok]),
            !.updated = IF ok THEN @ + 1 ELSE @,
            !.pc = IF ok THEN @ ELSE "rejected",
            !.i = @ + 1]
    /\ UNCHANGED <<now, ticks, kvBound, kv, lastRec, ret, envVars, cyc, riskVars, faults,
                   errorAlertAt, dispatchLog, send, cache, cacheLog, svc, adapter, hfCalc>>

(* one pass of the loop (lines 83-105): the row whose title is the symbol is updated,
   a symbol without a row gets one created; updated++ when the request went through,
   an entry of errors when it raised *)
PriceRow ==
    LET symbol == notion.prices[notion.i]
        kind == IF symbol \in notion.existingRows THEN "update" ELSE "create"
    IN
    /\ notion.pc = "rows" /\ notion.i <= Len(notion.prices)
    /\ \E ok \in BOOLEAN :
         notion' = [notion EXCEPT
            !.requests = Append(@, [symbol |-> symbol, kind |-> kind, ok |-> ok]),
            !.updated = IF ok THEN @ + 1 ELSE @,
            !.errors = IF ok THEN @ ELSE Append(@, symbol),
            !.i = @ + 1]
    /\ UNCHANGED <<now, ticks, kvBound, kv, lastRec, ret, envVars, cyc, riskVars, faults,
                   errorAlertAt, dispatchLog, send, cache, cacheLog, svc, adapter, hfCalc>>

(* return results (line 107) *)
ReturnResults ==
    /\ notion.pc = "rows" /\ notion.i > Len(notion.prices)
    /\ notion' = [notion EXCEPT !.pc = "returned"]
    /\ UNCHANGED <<now, ticks, kvBound, kv, lastRec, ret, envVars, cyc, riskVars, faults,
                   errorAlertAt, dispatchLog, send, cache, cacheLog, svc, adapter, hfCalc>>

-----------------------------------------------------------------------------
(* calculateHealthFactor.  Here health factors and the liquidation threshold are in
   thousandths (1.65 is 1650, 0.825 is 825); collateral value and borrowed amount
   are whole numbers. *)

DefaultLiquidationThreshold == 825

(* (collateralValue * liquidationThreshold) / borrowedAmount for a non-zero
   borrowedAmount, in thousandths; NaN when an operand is NaN *)
JsMulDiv(collateralValue, liquidationThreshold, borrowedAmount) ==
    IF collateralValue.t = "number" /\ borrowedAmount.t = "number"
    THEN Num((collateralValue.n * liquidationThreshold) \div borrowedAmount.n)
    ELSE NaN

(* calculateHealthFactor, computing also when the loan has a health factor *)
calculateHealthFactor_alwaysComputes(loan, thresholdArg) ==
    LET liquidationThreshold ==
            IF thresholdArg = Undefined THEN DefaultLiquidationThreshold ELSE thresholdArg.n
    IN IF JsTruthy(loan.collateralValue) /\ loan.borrowedAmount # Undefined
       THEN IF loan.borrowedAmount = Num(0) THEN Infinity
            ELSE JsMulDiv(loan.collateralValue, liquidationThreshold, loan.borrowedAmount)
       ELSE Num(0)

(* calculateHealthFactor(loan, liquidationThreshold = 0.825) *)
calculateHealthFactor(loan, thresholdArg) ==
    LET liquidationThreshold ==
            IF thresholdArg = Undefined THEN DefaultLiquidationThreshold ELSE thresholdArg.n
    IN IF JsTruthy(loan.healthFactor) THEN loan.healthFactor
       ELSE IF JsTruthy(loan.collateralValue) /\ loan.borrowedAmount # Undefined
            THEN IF loan.borrowedAmount = Num(0) THEN Infinity
                 ELSE JsMulDiv(loan.collateralValue, liquidationThreshold,
                               loan.borrowedAmount)
            ELSE Num(0)

-----------------------------------------------------------------------------
(* The AlertManager called directly, in any order, with any arguments *)

TickSteps == {COOLDOWN_MS - 1, COOLDOWN_MS, KV_TTL_SECONDS * 1000 - COOLDOWN_MS}

NoCall == [op |-> "none"]
NoRecord == [level |-> "none", timestamp |-> 0]

(* what a store can hold under alert:{loanId} before the manager first writes it:
   nothing, or a value that is no well-formed AlertRecord *)
MalformedValues ==
    { Text(""),
      Text("garbage"),
      JsonStringify(JNull),
      JsonStringify(Obj(Undefined, Undefined, Undefined)),
      JsonStringify(Obj(JStr("warning"), Undefined, JStr("ADA"))),
      JsonStringify(Obj(JStr("critical"), JStr("yesterday"), JStr("ADA"))) }

(* the variables a specification does not use *)
EnvUnused == envValid = TRUE /\ notionConfigured = FALSE /\ hfWarn = 17 /\ hfCrit = 15
CycleUnused == cyc = [w \in Workers |-> IdleCycle]
FaultsUnused == faults = 0 /\ errorAlertAt = NoExp /\ dispatchLog = NoDispatches
RiskUnused == hfIn = Undefined /\ warnIn = Undefined /\ critIn = Undefined /\ riskOut = "none"
AMUnused == ret = NoCall
LibUnused ==
    /\ send = NoSend
    /\ cache = EmptyCache /\ cacheLog = NoCacheLog /\ svc = NoSvcCall
    /\ adapter = NoAdapter
    /\ hfCalc = NoCalc
    /\ notion = NoNotionCall

AMInit ==
    /\ now = 0
    /\ ticks = 0
    /\ kvBound \in BOOLEAN
    /\ \E v \in MalformedValues \cup {NoValue} :
         kv = [key \in Keys |->
                 IF key = AlertKey("L1") THEN [val |-> v, exp |-> NoExp] ELSE Absent]
    /\ ret = NoCall
    /\ lastRec = [l \in Loans |-> NoRecord]
    /\ EnvUnused /\ CycleUnused /\ RiskUnused /\ FaultsUnused /\ LibUnused

AMShouldSendAlert(loanId, level, getOk) ==
    /\ ret' = [op |-> "shouldSendAlert", loanId |-> loanId, level |-> level,
               ok |-> getOk, result |-> shouldSendAlert(loanId, level, getOk)]
    /\ UNCHANGED <<now, ticks, kvBound, kv, lastRec, envVars, cyc, riskVars, faults, errorAlertAt, dispatchLog, libVars>>

AMRecordAlert(loanId, level, putOk) ==
    /\ kv' = recordAlert(loanId, level, assetSymbolOf(loanId), putOk)
    /\ lastRec' = IF recordAlertWrites(level, putOk)
                  THEN [lastRec EXCEPT ![loanId] = [level |-> level, timestamp |-> now]]
                  ELSE lastRec
    /\ ret' = [op |-> "recordAlert", loanId |-> loanId, level |-> level,
               ok |-> putOk, result |-> TRUE]
    /\ UNCHANGED <<now, ticks, kvBound, envVars, cyc, riskVars, faults, errorAlertAt, dispatchLog, libVars>>

AMGetLastAlert(loanId, getOk) ==
    /\ ret' = [op |-> "getLastAlert", loanId |-> loanId, level |-> "none",
               ok |-> getOk, result |-> getLastAlert(loanId, getOk)]
    /\ UNCHANGED <<now, ticks, kvBound, kv, lastRec, envVars, cyc, riskVars, faults, errorAlertAt, dispatchLog, libVars>>

AMTick ==
    /\ Tick(TickSteps, MaxTicks)
    /\ ret' = NoCall
    /\ UNCHANGED <<lastRec, envVars, cyc, riskVars, faults, errorAlertAt, dispatchLog, libVars>>

AMNext ==
    \/ \E l \in Loans, lv \in AlertLevels, ok \in BOOLEAN : AMShouldSendAlert(l, lv, ok)
    \/ \E l \in Loans, lv \in AlertLevels, ok \in BOOLEAN : AMRecordAlert(l, lv, ok)
    \/ \E l \in Loans, ok \in BOOLEAN : AMGetLastAlert(l, ok)
    \/ AMTick

SpecAM == AMInit /\ [][AMNext]_vars

-----------------------------------------------------------------------------
(* getRiskLevel called directly *)

MaxHealthFactor == 20
ThresholdInputs == {Undefined, Num(12), Num(15), Num(17)}
HealthFactorInputs == {Num(n) : n \in 0..MaxHealthFactor} \cup {Infinity, NaN}

RiskInit ==
    /\ hfIn \in HealthFactorInputs
    /\ warnIn \in ThresholdInputs
    /\ critIn \in ThresholdInputs
    /\ riskOut = "none"
    /\ now = 0 /\ ticks = 0 /\ kvBound = FALSE
    /\ kv = [key \in Keys |-> Absent]
    /\ lastRec = [l \in Loans |-> NoRecord]
    /\ AMUnused /\ EnvUnused /\ CycleUnused /\ FaultsUnused /\ LibUnused

RiskCall ==
    /\ riskOut = "none"
    /\ riskOut' = getRiskLevel(hfIn, warnIn, critIn)
    /\ UNCHANGED <<now, ticks, kvBound, kv, lastRec, ret, envVars, cyc, hfIn, warnIn, critIn, faults, errorAlertAt, dispatchLog, libVars>>

RiskNext == RiskCall

SpecRisk == RiskInit /\ [][RiskNext]_vars

-----------------------------------------------------------------------------
(* The worker: scheduled() invoked again and again, one invocation at a time *)

MaxCycleTicks == 1
CycleTickSteps == {COOLDOWN_MS - 1, COOLDOWN_MS}

Init ==
    /\ now = 0
    /\ ticks = 0
    /\ kvBound \in BOOLEAN
    /\ kv = [key \in Keys |-> Absent]
    /\ lastRec = [l \in Loans |-> NoRecord]
    /\ envValid \in BOOLEAN
    /\ notionConfigured \in BOOLEAN
    /\ hfWarn = 17 /\ hfCrit = 15
    /\ cyc = [w \in Workers |-> IdleCycle]
    /\ faults = 0
    /\ errorAlertAt = NoExp /\ dispatchLog = NoDispatches
    /\ AMUnused /\ RiskUnused /\ LibUnused

(* time passes between two invocations, and while sendAlert waits (its backoff, or
   the Retry-After the transport asks for) *)
CycleTick ==
    /\ \A w \in Workers : cyc[w].pc \in {"idle", "sendAlert", "errSendAlert"}
    /\ Tick(CycleTickSteps, MaxCycleTicks)
    /\ UNCHANGED <<lastRec, ret, envVars, cyc, riskVars, faults, errorAlertAt, dispatchLog, libVars>>

Next ==
    \/ Cycle(1)
    \/ CycleTick

Spec == Init /\ [][Next]_vars

-----------------------------------------------------------------------------
(* The worker over hours: the same loans at every fetch, and time passing between
   two invocations by steps around the two throttle windows *)

MaxThrottleTicks == 1
ThrottleTickSteps ==
    {PRICE_UPDATE_INTERVAL_MS, PRICE_UPDATE_INTERVAL_MS + 1,
     ERROR_ALERT_COOLDOWN_MS, ERROR_ALERT_COOLDOWN_MS + 1}

SteadySnapshot ==
    <<[id |-> "L1", healthFactor |-> Num(14)], [id |-> "L2", healthFactor |-> Num(17)]>>

ThrottleTick ==
    /\ \A w \in Workers : cyc[w].pc = "idle"
    /\ Tick(ThrottleTickSteps, MaxThrottleTicks)
    /\ UNCHANGED <<lastRec, ret, envVars, cyc, riskVars, faults, errorAlertAt, dispatchLog, libVars>>

ThrottleCycle ==
    /\ Cycle(1)
    /\ cyc'[1].snapshot \in {<<>>, SteadySnapshot}

ThrottleNext ==
    \/ ThrottleCycle
    \/ ThrottleTick

SpecThrottle == Init /\ [][ThrottleNext]_vars

-----------------------------------------------------------------------------
(* The worker under any threshold configuration: HF_WARN and HF_CRIT are whatever
   the deployment sets, the rest of the environment is valid *)

(* the values HF_WARN and HF_CRIT are set to, in tenths *)
ThresholdValues == {0 - 15, 0, 14, 15, 17}

(* envSchema on the two thresholds: z.coerce.number().positive() *)
envSchema(warn, crit) == warn > 0 /\ crit > 0

ThresholdInit ==
    /\ now = 0
    /\ ticks = 0
    /\ kvBound = TRUE
    /\ kv = [key \in Keys |-> Absent]
    /\ lastRec = [l \in Loans |-> NoRecord]
    /\ hfWarn \in ThresholdValues
    /\ hfCrit \in ThresholdValues
    /\ envValid = envSchema(hfWarn, hfCrit)
    /\ notionConfigured = TRUE
    /\ cyc = [w \in Workers |-> IdleCycle]
    /\ faults = 0
    /\ errorAlertAt = NoExp /\ dispatchLog = NoDispatches
    /\ AMUnused /\ RiskUnused /\ LibUnused

ThresholdNext == Cycle(1)

SpecThresholds == ThresholdInit /\ [][ThresholdNext]_vars

-----------------------------------------------------------------------------
(* sendAlert called directly, once, with any configuration and any outcome of each
   of its HTTP attempts *)

SendInit ==
    /\ now = 0 /\ ticks = 0 /\ kvBound = FALSE
    /\ kv = [key \in Keys |-> Absent]
    /\ lastRec = [l \in Loans |-> NoRecord]
    /\ send = NoSend
    /\ cache = EmptyCache /\ cacheLog = NoCacheLog /\ svc = NoSvcCall
    /\ adapter = NoAdapter
    /\ hfCalc = NoCalc
    /\ notion = NoNotionCall
    /\ AMUnused /\ EnvUnused /\ CycleUnused /\ RiskUnused /\ FaultsUnused

SendNext ==
    \/ \E hasToken \in BOOLEAN, hasChatId \in BOOLEAN : SendCall(hasToken, hasChatId)
    \/ SendAttempt

SpecSend == SendInit /\ [][SendNext]_vars

-----------------------------------------------------------------------------
(* The worker while a loan stays critical: the store is bound and its calls and the
   loan fetch succeed, the transport fails a bounded number of times, and the cron
   invokes scheduled() twice per cooldown *)

MaxDeliveryTicks == 6
DeliveryTickSteps == {COOLDOWN_MS \div 2}

DeliveryInit ==
    /\ now = 0
    /\ ticks = 0
    /\ kvBound = TRUE
    /\ kv = [key \in Keys |-> Absent]
    /\ lastRec = [l \in Loans |-> NoRecord]
    /\ envValid = TRUE
    /\ notionConfigured = FALSE
    /\ hfWarn = 17 /\ hfCrit = 15
    /\ cyc = [w \in Workers |-> IdleCycle]
    /\ faults = 0
    /\ errorAlertAt = NoExp /\ dispatchLog = NoDispatches
    /\ AMUnused /\ RiskUnused /\ LibUnused

(* a record is stored that is younger than the cooldown: time has to pass before
   the next alert of the loan *)
InsideCooldown ==
    \E l \in Loans :
        /\ KvGet(AlertKey(l)) # NoValue
        /\ now - lastRec[l].timestamp < COOLDOWN_MS

(* time passes between two invocations *)
DeliveryTick ==
    /\ \A w \in Workers : cyc[w].pc = "idle"
    /\ InsideCooldown
    /\ Tick(DeliveryTickSteps, MaxDeliveryTicks)
    /\ UNCHANGED <<lastRec, ret, envVars, cyc, riskVars, faults, errorAlertAt, dispatchLog, libVars>>

(* a step of the invocation: the fetch resolves to the same loans, the store calls
   succeed, and the transport fails only while the clock of the model has room for
   the cooldown that follows *)
DeliveryCycle ==
    /\ \/ Start(1)
       \/ CreateEnv(1)
       \/ FetchLoans(1)
       \/ Classify(1)
       \/ ShouldSend(1)
       \/ SendAlert(1)
       \/ RecordAlert(1)
       \/ Finish(1)
    /\ cyc'[1].snapshot \in {<<>>, SteadySnapshot}
    /\ cyc'[1].raised = {}
    /\ \A l \in Loans :
          /\ cyc'[1].obs[l].seen # "unreadable"
          /\ cyc'[1].obs[l].wrote # "failed"
    /\ faults' > faults => ticks <= MaxDeliveryTicks - 2

DeliveryNext ==
    \/ DeliveryCycle
    \/ DeliveryTick

(* the handler's awaited calls settle and the cron keeps invoking it; time keeps
   passing between invocations *)
SpecDelivery ==
    /\ DeliveryInit
    /\ [][DeliveryNext]_vars
    /\ WF_vars(DeliveryCycle)
    /\ SF_vars(DeliveryTick)

-----------------------------------------------------------------------------
(* A SimpleCache called directly, in any order, while time passes *)

MaxCacheTicks == 3
CacheTickSteps == {1, 1000}
CacheData == {JStr("a"), Num(0)}
CacheTtls == {0, 1, 2}

CacheInit ==
    /\ now = 0 /\ ticks = 0 /\ kvBound = FALSE
    /\ kv = [key \in Keys |-> Absent]
    /\ lastRec = [l \in Loans |-> NoRecord]
    /\ AMUnused /\ EnvUnused /\ CycleUnused /\ RiskUnused /\ FaultsUnused /\ LibUnused

CacheTick ==
    /\ Tick(CacheTickSteps, MaxCacheTicks)
    /\ cacheLog' = [cacheLog EXCEPT !.call = NoCacheCall]
    /\ UNCHANGED <<lastRec, ret, envVars, cyc, riskVars, faults, send, cache, svc,
                   adapter, hfCalc, notion>>

CacheNext ==
    \/ \E key \in HarnessKeys : CacheGet(key)
    \/ \E key \in HarnessKeys, data \in CacheData, ttl \in CacheTtls :
          CacheSet(key, data, ttl)
    \/ \E key \in HarnessKeys : CacheGetExpiry(key)
    \/ CacheTick

SpecCache == CacheInit /\ [][CacheNext]_vars

-----------------------------------------------------------------------------
(* The loan service called again and again with any options, while time passes *)

MaxLoanTicks == 3
LoanTickSteps == {1, 30 * 1000}
MaxAgeOptions == {Undefined, Num(30)}
TtlOptions == {Undefined, Num(0), Num(120)}

LoansInit ==
    /\ now = 0 /\ ticks = 0 /\ kvBound = FALSE
    /\ kv = [key \in Keys |-> Absent]
    /\ lastRec = [l \in Loans |-> NoRecord]
    /\ AMUnused /\ EnvUnused /\ CycleUnused /\ RiskUnused /\ FaultsUnused /\ LibUnused

LoansTick ==
    /\ Tick(LoanTickSteps, MaxLoanTicks)
    /\ svc' = NoSvcCall
    /\ UNCHANGED <<lastRec, ret, envVars, cyc, riskVars, faults, send, cache, cacheLog,
                   adapter, hfCalc, notion>>

LoansNext ==
    \/ \E detailed \in BOOLEAN, forceRefresh \in BOOLEAN, maxAge \in MaxAgeOptions,
          ttl \in TtlOptions, fetchOk \in BOOLEAN :
          GetLoans(detailed, forceRefresh, maxAge, ttl, fetchOk)
    \/ LoansTick

SpecLoans == LoansInit /\ [][LoansNext]_vars

-----------------------------------------------------------------------------
(* A NotionAdapter created with any configuration and called in any order *)

AdapterInit ==
    /\ now = 0 /\ ticks = 0 /\ kvBound = FALSE
    /\ kv = [key \in Keys |-> Absent]
    /\ lastRec = [l \in Loans |-> NoRecord]
    /\ AMUnused /\ EnvUnused /\ CycleUnused /\ RiskUnused /\ FaultsUnused /\ LibUnused

AdapterNext ==
    \/ \E token \in ConfigValues, dbId \in ConfigValues : AdapterCreate(token, dbId)
    \/ AdapterSetClient
    \/ \E outcome \in ClientSymbolOutcomes : AdapterGetAssetSymbols(outcome)
    \/ \E outcome \in ClientUpdateOutcomes : AdapterUpdatePriceDatabase(outcome)

SpecAdapter == AdapterInit /\ [][AdapterNext]_vars

-----------------------------------------------------------------------------
(* NotionClient.updatePriceDatabase called directly *)

NotionInit ==
    /\ now = 0 /\ ticks = 0 /\ kvBound = FALSE
    /\ kv = [key \in Keys |-> Absent]
    /\ lastRec = [l \in Loans |-> NoRecord]
    /\ send = NoSend
    /\ cache = EmptyCache /\ cacheLog = NoCacheLog /\ svc = NoSvcCall
    /\ adapter = NoAdapter
    /\ hfCalc = NoCalc
    /\ \E prices \in PriceKeys : notion = NotionCalled(prices)
    /\ AMUnused /\ EnvUnused /\ CycleUnused /\ RiskUnused /\ FaultsUnused

NotionNext ==
    \/ QueryPricesDatabase
    \/ PriceRow
    \/ ReturnResults

SpecNotion == NotionInit /\ [][NotionNext]_vars

-----------------------------------------------------------------------------
(* calculateHealthFactor called directly *)

LoanHealthFactors == {Num(0), Num(1800), Infinity, NaN}
CollateralValues == {Num(0), Num(1000), Num(2000), NaN}
BorrowedAmounts == {Num(0), Num(500), Num(1000), NaN, Undefined}
LiquidationThresholds == {Undefined, Num(750)}

CalcInit ==
    /\ now = 0 /\ ticks = 0 /\ kvBound = FALSE
    /\ kv = [key \in Keys |-> Absent]
    /\ lastRec = [l \in Loans |-> NoRecord]
    /\ send = NoSend
    /\ cache = EmptyCache /\ cacheLog = NoCacheLog /\ svc = NoSvcCall
    /\ adapter = NoAdapter
    /\ \E hf \in LoanHealthFactors, cv \in CollateralValues, b \in BorrowedAmounts,
          lt \in LiquidationThresholds :
          hfCalc = [op |-> "input",
                    loan |-> [healthFactor |-> hf, collateralValue |-> cv,
                              borrowedAmount |-> b],
                    liquidationThreshold |-> lt]
    /\ notion = NoNotionCall
    /\ AMUnused /\ EnvUnused /\ CycleUnused /\ RiskUnused /\ FaultsUnused

CalcCall ==
    /\ hfCalc.op = "input"
    /\ hfCalc' = [op |-> "called", loan |-> hfCalc.loan,
                  liquidationThreshold |-> hfCalc.liquidationThreshold,
                  out |-> calculateHealthFactor(hfCalc.loan, hfCalc.liquidationThreshold)]
    /\ UNCHANGED <<now, ticks, kvBound, kv, lastRec, ret, envVars, cyc, riskVars, faults,
                   errorAlertAt, dispatchLog, send, cache, cacheLog, svc, adapter, notion>>

CalcNext == CalcCall

SpecCalc == CalcInit /\ [][CalcNext]_vars

-----------------------------------------------------------------------------
(* The worker with a store whose reads and writes succeed: one invocation at a time,
   a loan that moves between the tiers from one fetch to the next, and time passing
   between two invocations and while sendAlert waits.  The calls to the loan source
   and to the transport succeed. *)

MaxRateTicks == 3
RateTickSteps == {1, COOLDOWN_MS - 1, COOLDOWN_MS}

(* the first loan moves between the tiers, the second stays critical *)
RateSnapshots ==
    { <<[id |-> "L1", healthFactor |-> h1], [id |-> "L2", healthFactor |-> Num(14)]>> :
          h1 \in HealthFactors }

RateInit ==
    /\ now = 0
    /\ ticks = 0
    /\ kvBound = TRUE
    /\ kv = [key \in Keys |-> Absent]
    /\ lastRec = [l \in Loans |-> NoRecord]
    /\ envValid = TRUE
    /\ notionConfigured = FALSE
    /\ hfWarn = 17 /\ hfCrit = 15
    /\ cyc = [w \in Workers |-> IdleCycle]
    /\ faults = 0
    /\ errorAlertAt = NoExp
    /\ dispatchLog = EmptyLog
    /\ AMUnused /\ RiskUnused /\ LibUnused

RateTick ==
    /\ \A w \in Workers : cyc[w].pc \in {"idle", "sendAlert"}
    /\ Tick(RateTickSteps, MaxRateTicks)
    /\ UNCHANGED <<lastRec, ret, envVars, cyc, riskVars, faults, libVars>>

(* a step of the invocation *)
RateCycle ==
    /\ \/ Start(1)
       \/ CreateEnv(1)
       \/ FetchLoans(1)
       \/ Classify(1)
       \/ ShouldSend(1)
       \/ SendAlert(1)
       \/ RecordAlert(1)
       \/ Finish(1)
    /\ cyc'[1].snapshot \in {<<>>} \cup RateSnapshots
    /\ faults' = faults
    /\ \A l \in Loans :
          /\ cyc'[1].obs[l].seen # "unreadable"
          /\ cyc'[1].obs[l].wrote # "failed"

RateNext ==
    \/ RateCycle
    \/ RateTick

SpecRate == RateInit /\ [][RateNext]_vars

-----------------------------------------------------------------------------
(* Two invocations of scheduled() that overlap: their awaited calls interleave in any
   order.  The store is bound, the calls succeed, and the loan source reports the
   same loans to both. *)

MaxOverlapTicks == 2
OverlapTickSteps == {1}

OverlapInit == RateInit

(* time passes at any await *)
OverlapTick ==
    /\ Tick(OverlapTickSteps, MaxOverlapTicks)
    /\ UNCHANGED <<lastRec, ret, envVars, cyc, riskVars, faults, libVars>>

(* a step of invocation w *)
OverlapCycle(w) ==
    /\ \/ Start(w)
       \/ CreateEnv(w)
       \/ FetchLoans(w)
       \/ Classify(w)
       \/ ShouldSend(w)
       \/ SendAlert(w)
       \/ RecordAlert(w)
       \/ Finish(w)
    /\ cyc'[w].snapshot \in {<<>>, SteadySnapshot}
    /\ faults' = faults

OverlapNext ==
    \/ \E w \in Workers : OverlapCycle(w)
    \/ OverlapTick

SpecOverlap == OverlapInit /\ [][OverlapNext]_vars

-----------------------------------------------------------------------------
(* The worker with a transport that fails: one invocation at a time, the store bound
   and its calls succeeding, a loan that stays below the warning threshold, and time
   passing between two invocations and while sendAlert retries *)

MaxAttemptTicks == 3
AttemptTickSteps == {1, COOLDOWN_MS - 1}

(* the first loan is critical or warning, the second is safe *)
AttemptSnapshots ==
    { <<[id |-> "L1", healthFactor |-> h1], [id |-> "L2", healthFactor |-> Num(17)]>> :
          h1 \in {Num(14), Num(15)} }

AttemptInit == RateInit

AttemptTick ==
    /\ \A w \in Workers : cyc[w].pc \in {"idle", "sendAlert"}
    /\ Tick(AttemptTickSteps, MaxAttemptTicks)
    /\ UNCHANGED <<lastRec, ret, envVars, cyc, riskVars, faults, libVars>>

(* a step of the invocation; only the transport fails *)
AttemptCycle ==
    /\ \/ Start(1)
       \/ CreateEnv(1)
       \/ FetchLoans(1)
       \/ Classify(1)
       \/ ShouldSend(1)
       \/ SendAlert(1)
       \/ RecordAlert(1)
       \/ Finish(1)
    /\ cyc'[1].snapshot \in {<<>>} \cup AttemptSnapshots
    /\ cyc'[1].raised = {}
    /\ \A l \in Loans :
          /\ cyc'[1].obs[l].seen # "unreadable"
          /\ cyc'[1].obs[l].wrote # "failed"

AttemptNext ==
    \/ AttemptCycle
    \/ AttemptTick

SpecAttempt == AttemptInit /\ [][AttemptNext]_vars

-----------------------------------------------------------------------------
(* Claims about the AlertManager, under SpecAM *)

CooldownLevels == {"warning", "critical"}

(* the last call was shouldSendAlert(loanId, level, _) *)
CalledShouldSend(loanId, level) ==
    /\ ret.op = "shouldSendAlert"
    /\ ret.loanId = loanId
    /\ ret.level = level

(* the value under alert:{loanId} is a well-formed AlertRecord *)
WellFormedRecord(s) ==
    /\ s.k = "json"
    /\ s.v.t = "object"
    /\ s.v.level \in {JStr("warning"), JStr("critical")}
    /\ s.v.timestamp.t = "number"
    /\ s.v.assetSymbol.t = "string"

(* C1: with the store bound and its calls succeeding, shouldSendAlert(id, level)
   for level warning or critical returns true when nothing is stored for the
   loan; and when the last record stored for the loan is one recordAlert wrote
   with the same level at time t, it returns false while now - t < 10 minutes
   and true once now - t >= 10 minutes. *)
C1_Cooldown ==
    \A l \in Loans, lv \in CooldownLevels :
        (kvBound /\ CalledShouldSend(l, lv) /\ ret.ok) =>
            /\ (KvGet(AlertKey(l)) = NoValue /\ lastRec[l] = NoRecord) => ret.result = TRUE
            /\ lastRec[l].level = lv =>
                   (ret.result = (now - lastRec[l].timestamp >= COOLDOWN_MS))

(* a same-level call exactly one cooldown after the record was written, allowed *)
C1_Witness ==
    \E l \in Loans :
        /\ kvBound /\ CalledShouldSend(l, "warning") /\ ret.ok
        /\ lastRec[l].level = "warning"
        /\ now - lastRec[l].timestamp = COOLDOWN_MS
        /\ KvGet(AlertKey(l)) # NoValue
        /\ ret.result = TRUE

(* a same-level call inside the cooldown, suppressed *)
C1_WitnessSuppressed ==
    \E l \in Loans :
        /\ kvBound /\ CalledShouldSend(l, "critical") /\ ret.ok
        /\ lastRec[l].level = "critical"
        /\ now - lastRec[l].timestamp = COOLDOWN_MS - 1
        /\ ret.result = FALSE

(* C2: whenever the store holds, for a loan, a record of level warning with a
   timestamp t <= now, shouldSendAlert(id, critical) returns true, whatever the
   time elapsed since t. *)
C2_Escalation ==
    \A l \in Loans :
        LET s == KvGet(AlertKey(l)) IN
        ( /\ kvBound /\ CalledShouldSend(l, "critical")
          /\ s.k = "json" /\ s.v.t = "object"
          /\ s.v.level = JStr("warning")
          /\ s.v.timestamp.t = "number" /\ s.v.timestamp.n <= now )
        => ret.result = TRUE

(* a critical call right after a warning was recorded, inside the cooldown *)
C2_Witness ==
    \E l \in Loans :
        /\ kvBound /\ CalledShouldSend(l, "critical") /\ ret.ok
        /\ WellFormedRecord(KvGet(AlertKey(l)))
        /\ KvGet(AlertKey(l)).v.level = JStr("warning")
        /\ now - KvGet(AlertKey(l)).v.timestamp.n < COOLDOWN_MS
        /\ ret.result = TRUE

(* C3: for every value under alert:{loanId} that cannot be read, cannot be
   parsed or is no well-formed AlertRecord, shouldSendAlert for warning or
   critical returns true. *)
C3_CorruptNeverBlocks ==
    \A l \in Loans, lv \in CooldownLevels :
        ( /\ kvBound /\ CalledShouldSend(l, lv)
          /\ \/ ~ret.ok
             \/ /\ KvGet(AlertKey(l)) # NoValue
                /\ ~WellFormedRecord(KvGet(AlertKey(l))) )
        => ret.result = TRUE

-----------------------------------------------------------------------------
(* Claims about getRiskLevel, under SpecRisk *)

(* the thresholds getRiskLevel compares with, in tenths *)
WarnUsed == IF warnIn = Undefined THEN DefaultWarnThreshold ELSE warnIn.n
CritUsed == IF critIn = Undefined THEN DefaultCriticalThreshold ELSE critIn.n

(* C6: for every health factor in [0, +Infinity] and thresholds crit < warn,
   getRiskLevel returns exactly one tier: critical iff healthFactor < crit,
   warning iff crit <= healthFactor < warn, safe iff healthFactor >= warn; a
   value equal to a threshold gets the safer tier, 0 is critical and +Infinity
   is safe. *)
C6_RiskClassification ==
    (riskOut # "none" /\ hfIn # NaN /\ CritUsed < WarnUsed) =>
        /\ riskOut \in {"critical", "warning", "safe"}
        /\ riskOut = "critical" <=> (hfIn.t = "number" /\ hfIn.n < CritUsed)
        /\ riskOut = "warning" <=>
               (hfIn.t = "number" /\ CritUsed <= hfIn.n /\ hfIn.n < WarnUsed)
        /\ riskOut = "safe" <=>
               (hfIn = Infinity \/ (hfIn.t = "number" /\ hfIn.n >= WarnUsed))
        /\ (hfIn = Num(0) /\ CritUsed > 0) => riskOut = "critical"

(* a health factor equal to the critical threshold, classified warning *)
C6_Witness ==
    /\ hfIn = Num(15) /\ critIn = Num(15) /\ warnIn = Num(17)
    /\ riskOut = "warning"

(* +Infinity classified safe under the default thresholds *)
C6_WitnessInfinity ==
    /\ hfIn = Infinity /\ critIn = Undefined /\ warnIn = Undefined
    /\ riskOut = "safe"

-----------------------------------------------------------------------------
(* Claims about the monitoring cycle, under Spec *)

(* the cycle is past its loan loop *)
LoopEnded(c) == "loop" \in c.visited /\ c.pc \notin TryPcs

(* the positions of the snapshot, the tier of the loan at a position and what the
   cycle has observed and done for it *)
Indexes(c) == 1..Len(c.snapshot)
LevelOf(c, k) == InlineLevel(c.snapshot[k].healthFactor)
ObsOf(c, k) == c.obs[c.snapshot[k].id]

(* the AlertRecord recordAlert stores for a loan *)
RecordOf(loanId, level, timestamp) ==
    JsonStringify(Obj(JStr(level), Num(timestamp), JStr(assetSymbolOf(loanId))))

(* C4: when no store is bound, shouldSendAlert returns true for every loan and
   level in every state the worker reaches, recordAlert leaves the store as it
   is, and a cycle that has gone through its loans has dispatched exactly one
   alert, of the loan's tier, for every loan in the warning or critical tier. *)
C4_FailOpenWithoutStore ==
    ~kvBound =>
        /\ \A l \in Loans, lv \in AlertLevels, ok \in BOOLEAN :
               /\ shouldSendAlert(l, lv, ok) = TRUE
               /\ recordAlert(l, lv, assetSymbolOf(l), ok) = kv
        /\ \A w \in Workers :
               LET c == cyc[w] IN
               LoopEnded(c) =>
                   \A k \in Indexes(c) :
                       LevelOf(c, k) # "none" =>
                           /\ ObsOf(c, k).decision = "send"
                           /\ ObsOf(c, k).sends = 1
                           /\ ObsOf(c, k).level = LevelOf(c, k)
                           /\ ObsOf(c, k).wrote = "nostore"

(* without a store, a cycle over a critical and a warning loan has dispatched both *)
C4_Witness ==
    \E w \in Workers :
        LET c == cyc[w] IN
        /\ ~kvBound /\ c.pc = "done" /\ LoopEnded(c)
        /\ c.snapshot[1].healthFactor = Num(14)
        /\ c.snapshot[2].healthFactor = Num(15)
        /\ c.obs["L1"].sends = 1 /\ c.obs["L1"].level = "critical"
        /\ c.obs["L2"].sends = 1 /\ c.obs["L2"].level = "warning"
        /\ c.obs["L2"].wrote = "nostore"

(* the first cycle: a loan at risk for which the store holds nothing *)
C5_FirstCycle ==
    \A w \in Workers :
        LET c == cyc[w] IN
        (kvBound /\ LoopEnded(c)) =>
            \A k \in Indexes(c) :
                LET id == c.snapshot[k].id IN
                (LevelOf(c, k) # "none" /\ ObsOf(c, k).seen = "absent") =>
                    /\ ObsOf(c, k).sends = 1
                    /\ ObsOf(c, k).level = LevelOf(c, k)
                    /\ ObsOf(c, k).wrote \in {"ok", "failed"}
                    /\ ObsOf(c, k).wrote = "ok" =>
                           /\ lastRec[id].level = LevelOf(c, k)
                           /\ KvGet(AlertKey(id)) =
                                  RecordOf(id, LevelOf(c, k), lastRec[id].timestamp)

(* a later cycle: the call of shouldSendAlert for a loan whose last record has the
   loan's tier and is younger than the cooldown *)
C5_SecondCycle ==
    \A w \in Workers :
        LET c == cyc[w] IN
        ( /\ c.pc = "shouldSendAlert"
          /\ cyc'[w] # c
          /\ kvBound
          /\ lastRec[CurLoan(c).id].level = CurLevel(c)
          /\ now - lastRec[CurLoan(c).id].timestamp < COOLDOWN_MS
          /\ cyc'[w].obs[CurLoan(c).id].seen # "unreadable" )
        => /\ cyc'[w].pc = "loop"
           /\ cyc'[w].i = c.i + 1
           /\ cyc'[w].obs[CurLoan(c).id].decision = "suppressed"
           /\ cyc'[w].obs[CurLoan(c).id].sends = 0

(* C5: with the store bound and its calls succeeding, a cycle that finds no
   record for a loan in the warning or critical tier dispatches exactly one
   alert of that tier for it and writes one AlertRecord with that level; a
   cycle run while that record is younger than the cooldown, with the loan in
   the same tier, dispatches nothing for the loan. *)
C5_Deduplication == []C5_FirstCycle /\ [][C5_SecondCycle]_vars

(* a cycle has suppressed the critical alert of a loan whose critical record an
   earlier cycle wrote less than a cooldown ago *)
C5_Witness ==
    \E w \in Workers :
        LET c == cyc[w] IN
        /\ kvBound /\ c.pc = "done" /\ LoopEnded(c)
        /\ c.snapshot[1].healthFactor = Num(14)
        /\ c.obs["L1"].seen = "critical"
        /\ c.obs["L1"].decision = "suppressed"
        /\ c.obs["L1"].sends = 0
        /\ lastRec["L1"].level = "critical"
        /\ now - lastRec["L1"].timestamp = COOLDOWN_MS - 1

(* C7: a cycle in which the transport has returned false for a loan is not
   aborted: it does not enter the failure handler, and once it is past the
   loop every loan of the snapshot has been classified and every loan that
   shouldSendAlert allowed has been dispatched. *)
C7_PerLoanIsolation ==
    \A w \in Workers :
        LET c == cyc[w] IN
        (\E l \in Loans : c.obs[l].delivered = "failed") =>
            /\ c.pc \notin ErrorPcs
            /\ "getLastErrorAlertTime" \notin c.visited
            /\ c.pc \notin TryPcs =>
                   \A k \in Indexes(c) :
                       /\ ObsOf(c, k).decision \in {"safe", "send", "suppressed"}
                       /\ ObsOf(c, k).decision = "safe" <=> LevelOf(c, k) = "none"
                       /\ ObsOf(c, k).decision = "send" => ObsOf(c, k).sends = 1

(* the delivery for the first loan failed, the second loan was dispatched *)
C7_Witness ==
    \E w \in Workers :
        LET c == cyc[w] IN
        /\ c.pc = "done"
        /\ c.obs["L1"].delivered = "failed"
        /\ c.obs["L2"].decision = "send"
        /\ c.obs["L2"].sends = 1
        /\ c.obs["L2"].delivered = "ok"

(* C8: in a cycle whose loan fetch has failed, no loan is classified, no alert
   is dispatched, no alert:{loanId} record is written, the price-mirror step is
   not run, and control is in the top-level failure handler or past it. *)
C8_FetchFailureAborts ==
    \A w \in Workers :
        LET c == cyc[w] IN
        "fetch" \in c.raised =>
            /\ \A l \in Loans : c.obs[l] = NoObs
            /\ c.visited \cap
                   (MirrorPcs \cup {"loop", "shouldSendAlert", "sendAlert", "recordAlert"})
                   = {}
            /\ "getLastErrorAlertTime" \in c.visited
            /\ c.pc \in ErrorPcs \cup {"done"}

(* a cycle whose fetch failed has sent the error alert and returned *)
C8_Witness ==
    \E w \in Workers :
        LET c == cyc[w] IN
        /\ "fetch" \in c.raised
        /\ "errSendAlert" \in c.visited
        /\ c.pc = "done"

(* how far an invocation is *)
Pos(c) ==
    CASE c.pc = "idle" -> 0
      [] c.pc = "createEnv" -> 1
      [] c.pc = "fetch" -> 2
      [] c.pc = "loop" -> 4 * c.i
      [] c.pc = "shouldSendAlert" -> 4 * c.i + 1
      [] c.pc = "sendAlert" -> 4 * c.i + 2
      [] c.pc = "recordAlert" -> 4 * c.i + 3
      [] c.pc = "getLastPriceUpdateTime" -> 4 * (Cardinality(Loans) + 2)
      [] c.pc = "getAssetSymbols" -> 4 * (Cardinality(Loans) + 2) + 1
      [] c.pc = "getPrices" -> 4 * (Cardinality(Loans) + 2) + 2
      [] c.pc = "updatePriceDatabase" -> 4 * (Cardinality(Loans) + 2) + 3
      [] c.pc = "putLastPriceUpdateTime" -> 4 * (Cardinality(Loans) + 2) + 4
      [] c.pc = "getLastErrorAlertTime" -> 4 * (Cardinality(Loans) + 2) + 5
      [] c.pc = "errCreateEnv" -> 4 * (Cardinality(Loans) + 2) + 6
      [] c.pc = "errSendAlert" -> 4 * (Cardinality(Loans) + 2) + 7
      [] c.pc = "putLastErrorAlertTime" -> 4 * (Cardinality(Loans) + 2) + 8
      [] c.pc = "done" -> 4 * (Cardinality(Loans) + 2) + 9
      [] OTHER -> 0

(* no invocation has thrown to the scheduler *)
C9_NeverRejects == \A w \in Workers : cyc[w].pc # "rejected"

(* an invocation that has not returned can take a step *)
C9_NotStuck == \A w \in Workers : cyc[w].pc # "idle" => ENABLED Cycle(w)

(* a step of an invocation returns from "done" or takes it further *)
C9_Progress ==
    \A w \in Workers :
        (cyc[w].pc # "idle" /\ cyc'[w] # cyc[w]) =>
            \/ cyc[w].pc = "done" /\ cyc'[w] = IdleCycle
            \/ Pos(cyc'[w]) > Pos(cyc[w])

(* C9: whichever of configuration validation, the loan fetch, the transport,
   the store reads and writes, the mirror and the error-alert path fail,
   scheduled() never throws to the scheduler, can always take its next step,
   and every step takes it further towards its return: it terminates and
   resolves. *)
C9_AlwaysCompletes == [](C9_NeverRejects /\ C9_NotStuck) /\ [][C9_Progress]_vars

(* a cycle has returned after the fetch failed and the write of lastErrorAlertTime
   in the failure handler failed as well *)
C9_Witness ==
    \E w \in Workers :
        LET c == cyc[w] IN
        /\ c.pc = "done"
        /\ "fetch" \in c.raised
        /\ "putLastErrorAlertTime" \in c.raised

(* a cycle has returned after configuration validation failed in the try block and
   again in the failure handler *)
C9_WitnessConfig ==
    \E w \in Workers :
        LET c == cyc[w] IN
        /\ c.pc = "done"
        /\ ~envValid
        /\ c.raised = {"createEnv", "errCreateEnv"}

(* C10 as stated: an error raised anywhere in a cycle, in the loan fetch, the
   loan processing or the price-mirror step, takes the cycle to the throttled
   error-alert path. *)
C10_AnyErrorAlerts ==
    \A w \in Workers :
        LET c == cyc[w] IN
        c.raised \cap (TryPcs \cup MirrorPcs) # {} => "getLastErrorAlertTime" \in c.visited

(* C10: an error raised in configuration validation, the loan fetch or the
   loan processing is caught at the top level and takes the cycle to the
   throttled error-alert path; an error raised in the price-mirror step is
   caught by the step's own handler and the cycle returns without entering
   the error-alert path. *)
C10_ErrorHandling ==
    \A w \in Workers :
        LET c == cyc[w] IN
        /\ c.raised \cap TryPcs # {} =>
               /\ "getLastErrorAlertTime" \in c.visited
               /\ c.pc \in ErrorPcs \cup {"done"}
        /\ c.raised \cap MirrorPcs # {} =>
               /\ "getLastErrorAlertTime" \notin c.visited
               /\ c.visited \cap ErrorPcs = {}
               /\ c.pc = "done"

(* a cycle has returned after getPrices failed in the price-mirror step *)
C10_Witness ==
    \E w \in Workers :
        LET c == cyc[w] IN
        /\ c.pc = "done"
        /\ "getPrices" \in c.raised
        /\ "getLastErrorAlertTime" \notin c.visited

-----------------------------------------------------------------------------
(* Claims about the two throttles, under SpecThrottle *)

(* what a throttle test reads under key: null without a store *)
ThrottleRead(key) == IF kvBound THEN KvGet(key) ELSE NoValue

(* the failure handler has made its throttle test, and has not sent yet *)
ErrorDecided(c) ==
    /\ "getLastErrorAlertTime" \in c.visited
    /\ "getLastErrorAlertTime" \notin c.raised
    /\ c.pc = "errCreateEnv" \/ (c.pc = "done" /\ "errCreateEnv" \notin c.visited)

(* C11: in a failing cycle whose read of lastErrorAlertTime succeeds, the
   failure handler goes on to send the error alert iff the key is absent or
   currentTime - lastErrorAlertTime >= 12 hours: the comparison of the loan
   cooldown, where elapsed equal to the window allows sending. *)
C11_ErrorThrottleDecision ==
    \A w \in Workers :
        LET c == cyc[w]
            last == ThrottleRead("lastErrorAlertTime")
        IN
        ErrorDecided(c) =>
            (c.pc = "errCreateEnv" <=>
                 \/ last = NoValue
                 \/ JsGte(JsSub(Num(c.currentTime), ParseInt(last)),
                          ERROR_ALERT_COOLDOWN_MS))

C12_WitnessSkipped ==
    \E w \in Workers :
        LET c == cyc[w] IN
        /\ kvBound /\ ErrorDecided(c) /\ c.pc = "done"
        /\ KvGet("lastErrorAlertTime") = NumToString(errorAlertAt)
        /\ c.currentTime = errorAlertAt

(* the mirror step has made its throttle test, and has not written yet *)
MirrorDecided(c) ==
    /\ "getLastPriceUpdateTime" \in c.visited
    /\ "getLastPriceUpdateTime" \notin c.raised
    /\ c.pc = "getAssetSymbols" \/ (c.pc = "done" /\ "getAssetSymbols" \notin c.visited)

(* C13: with the mirror configured, in a cycle that reaches the mirror step and
   reads lastPriceUpdateTime, the step is skipped when the key is present and
   less than 60 minutes old, and it runs when the key is absent or more than
   60 minutes old. *)
C13_MirrorThrottleDecision ==
    \A w \in Workers :
        LET c == cyc[w]
            last == ThrottleRead("lastPriceUpdateTime")
        IN
        /\ MirrorDecided(c) =>
            /\ notionConfigured
            /\ (last # NoValue /\ c.currentTime - ParseInt(last).n < PRICE_UPDATE_INTERVAL_MS)
                   => c.pc = "done"
            /\ (last = NoValue \/ c.currentTime - ParseInt(last).n > PRICE_UPDATE_INTERVAL_MS)
                   => c.pc = "getAssetSymbols"
        \* the step ends without a decision only when the read itself rejects
        /\ "getLastPriceUpdateTime" \in c.raised => faults > 0

(* the mirror step runs again, 60 minutes and 1 ms after the update before it *)
C13_Witness ==
    \E w \in Workers :
        LET c == cyc[w] IN
        /\ kvBound /\ MirrorDecided(c) /\ c.pc = "getAssetSymbols"
        /\ KvGet("lastPriceUpdateTime") # NoValue
        /\ c.currentTime - ParseInt(KvGet("lastPriceUpdateTime")).n
               = PRICE_UPDATE_INTERVAL_MS + 1

(* the mirror step is skipped right after an update *)
C13_WitnessSkipped ==
    \E w \in Workers :
        LET c == cyc[w] IN
        /\ kvBound /\ MirrorDecided(c) /\ c.pc = "done"
        /\ KvGet("lastPriceUpdateTime") = NumToString(c.currentTime)

(* C14: a cycle that has written lastPriceUpdateTime is one whose
   updatePriceDatabase completed and reported no failed symbol. *)
C14_WrittenOnlyOnSuccess ==
    \A w \in Workers :
        LET c == cyc[w] IN
        ( /\ c.pc = "done"
          /\ "putLastPriceUpdateTime" \in c.visited
          /\ "putLastPriceUpdateTime" \notin c.raised ) =>
            c.mirrorResult = "allUpdated"

-----------------------------------------------------------------------------
(* More claims about the AlertManager, under SpecAM *)

(* the last call was recordAlert(loanId, level, _) *)
CalledRecordAlert(loanId, level) ==
    /\ ret.op = "recordAlert"
    /\ ret.loanId = loanId
    /\ ret.level = level

(* the value under a loan's key is what was there before the manager first wrote,
   or the record of the last recordAlert that wrote for the loan *)
C15_OneRecord ==
    \A l \in Loans :
        LET s == KvGet(AlertKey(l)) IN
        \/ s = NoValue
        \/ s \in MalformedValues /\ lastRec[l] = NoRecord
        \/ s = RecordOf(l, lastRec[l].level, lastRec[l].timestamp)

(* a call recordAlert(l, lv, _) for warning or critical whose write succeeds *)
C15_Overwrite ==
    \A l \in Loans, lv \in CooldownLevels :
        (kvBound /\ CalledRecordAlert(l, lv)' /\ ret'.ok) =>
            /\ kv'[AlertKey(l)] =
                   [val |-> RecordOf(l, lv, now), exp |-> now + 60 * 60 * 1000]
            /\ \A key \in Keys \ {AlertKey(l)} : kv'[key] = kv[key]

(* C15: the store holds one value per loan, which is the record of the last
   emission for the loan; recordAlert for warning or critical with the store
   bound replaces the value under alert:{loanId} by {level, timestamp = now,
   assetSymbol} with an expiry one hour later, and leaves every other key
   unchanged. *)
C15_OneRecordPerLoan == []C15_OneRecord /\ [][C15_Overwrite]_vars

(* a critical record has replaced, one cooldown later, the warning record of L1,
   with the record of L2 still in place *)
C15_Witness ==
    /\ kvBound /\ CalledRecordAlert("L1", "critical") /\ ret.ok
    /\ now = COOLDOWN_MS
    /\ KvGet(AlertKey("L1")) = RecordOf("L1", "critical", COOLDOWN_MS)
    /\ KvGet(AlertKey("L2")) = RecordOf("L2", "warning", 0)

(* C17: the retention (1 hour) is strictly longer than the cooldown (10
   minutes); whenever the record recordAlert wrote for a loan is no longer in
   the store, at least the cooldown has elapsed since its timestamp, so a call
   of shouldSendAlert that returns true because the record has expired is one
   the elapsed-time rule allows too. *)
C17_RetentionExceedsCooldown ==
    /\ KV_TTL_SECONDS * 1000 > COOLDOWN_MS
    /\ \A l \in Loans :
           (kvBound /\ lastRec[l] # NoRecord /\ KvGet(AlertKey(l)) = NoValue) =>
               now - lastRec[l].timestamp >= COOLDOWN_MS

(* a call allowed after the record of the loan has expired *)
C17_Witness ==
    \E l \in Loans :
        /\ kvBound /\ lastRec[l] # NoRecord /\ KvGet(AlertKey(l)) = NoValue
        /\ CalledShouldSend(l, lastRec[l].level) /\ ret.ok
        /\ ret.result = TRUE
        /\ now - lastRec[l].timestamp = KV_TTL_SECONDS * 1000

(* C18: when the store holds for a loan a record of level critical with
   timestamp t, shouldSendAlert(id, warning) returns false while now - t < 10
   minutes and true from 10 minutes on. *)
C18_NoDeescalationOverride ==
    \A l \in Loans :
        LET s == KvGet(AlertKey(l)) IN
        ( /\ kvBound /\ CalledShouldSend(l, "warning") /\ ret.ok
          /\ WellFormedRecord(s)
          /\ s.v.level = JStr("critical") )
        => ret.result = (now - s.v.timestamp.n >= COOLDOWN_MS)

(* a warning call over a critical record, 1 ms before the cooldown ends: suppressed *)
C18_Witness ==
    \E l \in Loans :
        /\ kvBound /\ CalledShouldSend(l, "warning") /\ ret.ok
        /\ KvGet(AlertKey(l)) = RecordOf(l, "critical", 0)
        /\ now = COOLDOWN_MS - 1
        /\ ret.result = FALSE

(* a warning call over a critical record, when the cooldown ends: allowed *)
C18_WitnessAllowed ==
    \E l \in Loans :
        /\ kvBound /\ CalledShouldSend(l, "warning") /\ ret.ok
        /\ KvGet(AlertKey(l)) = RecordOf(l, "critical", 0)
        /\ now = COOLDOWN_MS
        /\ ret.result = TRUE

PassThroughLevels == AlertLevels \ CooldownLevels

(* shouldSendAlert for info or error returns true *)
C19_NeverThrottled ==
    \A l \in Loans, lv \in PassThroughLevels :
        CalledShouldSend(l, lv) => ret.result = TRUE

(* recordAlert for info or error leaves the store as it is *)
C19_NeverRecorded ==
    \A l \in Loans, lv \in PassThroughLevels :
        CalledRecordAlert(l, lv)' => (kv' = kv /\ lastRec' = lastRec)

(* C19: for the levels info and error shouldSendAlert returns true whatever
   the store holds for the loan, and recordAlert leaves the store unchanged. *)
C19_OtherLevelsPassThrough == []C19_NeverThrottled /\ [][C19_NeverRecorded]_vars

(* an error-level call allowed over a record that is inside its cooldown *)
C19_Witness ==
    \E l \in Loans :
        /\ kvBound /\ CalledShouldSend(l, "error") /\ ret.ok
        /\ KvGet(AlertKey(l)) = RecordOf(l, "critical", now)
        /\ ret.result = TRUE

(* getLastAlert returns what JSON.parse gives for the stored text, and null
   without a store, without a value, and when the read or the parse fails *)
C20_ReadsRecord ==
    \A l \in Loans :
        (ret.op = "getLastAlert" /\ ret.loanId = l) =>
            LET s == KvGet(AlertKey(l)) IN
            ret.result = IF ~kvBound \/ ~ret.ok \/ s = NoValue \/ s.k = "text"
                         THEN JNull
                         ELSE s.v

(* a call of getLastAlert or shouldSendAlert leaves the store as it is *)
C20_NoWrite ==
    ret'.op \in {"getLastAlert", "shouldSendAlert"} => kv' = kv

(* C20: getLastAlert returns the record stored under alert:{loanId}, or null
   when there is no store, no record, or the read or the parse fails; neither
   it nor shouldSendAlert changes the store. *)
C20_PureRead == []C20_ReadsRecord /\ [][C20_NoWrite]_vars

(* getLastAlert has returned the record recordAlert wrote one cooldown earlier *)
C20_Witness ==
    \E l \in Loans :
        /\ kvBound /\ ret.op = "getLastAlert" /\ ret.loanId = l /\ ret.ok
        /\ now = COOLDOWN_MS
        /\ ret.result = Obj(JStr("warning"), Num(0), JStr(assetSymbolOf(l)))

(* getLastAlert has returned null for a text that is no JSON *)
C20_WitnessUnparsable ==
    /\ kvBound /\ ret.op = "getLastAlert" /\ ret.loanId = "L1" /\ ret.ok
    /\ KvGet(AlertKey("L1")) = Text("garbage")
    /\ ret.result = JNull

-----------------------------------------------------------------------------
(* More claims about the monitoring cycle, under Spec *)

(* a cycle in which a write of recordAlert was rejected is not aborted *)
C16_CycleGoesOn ==
    \A w \in Workers :
        LET c == cyc[w] IN
        (\E l \in Loans : c.obs[l].wrote = "failed") =>
            /\ c.pc \in TryPcs \cup MirrorPcs \cup {"done"}
            /\ c.raised \cap TryPcs = {}
            /\ "getLastErrorAlertTime" \notin c.visited
            /\ c.pc \notin TryPcs =>
                   /\ AfterLoop \in c.visited
                   /\ \A k \in Indexes(c) :
                          /\ ObsOf(c, k).decision \in {"safe", "send", "suppressed"}
                          /\ ObsOf(c, k).decision = "send" =>
                                 (ObsOf(c, k).sends = 1 /\ ObsOf(c, k).wrote # "none")

(* the step in which the write of recordAlert is rejected *)
C16_Swallowed ==
    \A w \in Workers :
        ( /\ cyc[w].pc = "recordAlert"
          /\ cyc'[w] # cyc[w]
          /\ cyc'[w].obs[CurLoan(cyc[w]).id].wrote = "failed" ) =>
            /\ kv' = kv
            /\ lastRec' = lastRec
            /\ cyc'[w].pc = "loop"
            /\ cyc'[w].i = cyc[w].i + 1
            /\ cyc'[w].raised = cyc[w].raised

(* C16: when the store write of recordAlert fails, recordAlert returns
   normally, the store keeps what it held for the loan, and the cycle goes on
   with the remaining loans and the steps after the loop without entering the
   failure handler. *)
C16_WriteFailureSwallowed == []C16_CycleGoesOn /\ [][C16_Swallowed]_vars

(* the write for the first loan was rejected; the second loan was dispatched and
   recorded, and the mirror step was entered *)
C16_Witness ==
    \E w \in Workers :
        LET c == cyc[w] IN
        /\ c.pc = "done"
        /\ c.obs["L1"].wrote = "failed"
        /\ c.obs["L2"].sends = 1
        /\ c.obs["L2"].wrote = "ok"
        /\ "getLastPriceUpdateTime" \in c.visited

-----------------------------------------------------------------------------
(* Claims about the price-mirror configuration, under Spec *)

(* without NOTION_PRICES_DB_ID a cycle is never in the mirror step, has made none of
   its calls, and lastPriceUpdateTime is as it was *)
C21_MirrorSkipped ==
    ~notionConfigured =>
        /\ kv["lastPriceUpdateTime"] = Absent
        /\ \A w \in Workers :
               LET c == cyc[w] IN
               /\ c.pc \notin MirrorPcs
               /\ c.visited \cap MirrorPcs = {}
               /\ c.mirrorResult = "none"

(* what a cycle past its loop has done for its loans, in terms of the snapshot and
   of what it found in the store only *)
C21_AlertingRule ==
    \A w \in Workers :
        LET c == cyc[w] IN
        LoopEnded(c) =>
            \A k \in Indexes(c) :
                LET o == ObsOf(c, k) IN
                /\ o.decision = "safe" <=> LevelOf(c, k) = "none"
                /\ o.decision \in {"safe", "send", "suppressed"}
                /\ o.decision = "send" =>
                       /\ o.sends = 1 /\ o.level = LevelOf(c, k)
                       /\ ~kvBound => o.wrote = "nostore"
                       /\ o.wrote # "none"
                /\ o.decision # "send" => o.sends = 0 /\ o.wrote = "none"
                /\ o.decision = "suppressed" => o.seen \in {"warning", "critical"}
                /\ o.seen \in {"absent", "nostore", "unreadable"} /\ LevelOf(c, k) # "none"
                       => o.decision = "send"

(* a step outside the loan loop leaves the alert records and what the cycle has done
   for its loans as they are *)
C21_AlertingUntouched ==
    \A w \in Workers :
        LET c == cyc[w] IN
        (c.pc \in MirrorPcs \cup {"loop"} /\ cyc'[w].pc \in MirrorPcs \cup {"done"}) =>
            /\ \A l \in Loans : kv'[AlertKey(l)] = kv[AlertKey(l)]
            /\ lastRec' = lastRec
            /\ cyc'[w].obs = c.obs

(* C21: when NOTION_PRICES_DB_ID is not set, a cycle makes no call of the mirror
   step and neither reads nor writes lastPriceUpdateTime; what the cycle does for
   its loans follows the same rule with and without the mirror, and the steps
   after the loop change nothing of it. *)
C21_MirrorNotConfigured ==
    [](C21_MirrorSkipped /\ C21_AlertingRule) /\ [][C21_AlertingUntouched]_vars

(* without the mirror, a cycle has alerted and recorded a critical loan and returned *)
C21_Witness ==
    \E w \in Workers :
        LET c == cyc[w] IN
        /\ ~notionConfigured /\ kvBound
        /\ c.pc = "done" /\ LoopEnded(c)
        /\ c.obs["L1"].decision = "send" /\ c.obs["L1"].level = "critical"
        /\ c.obs["L1"].wrote = "ok"
        /\ c.visited \cap MirrorPcs = {}

(* with the mirror, a cycle has done the same for the loan and has pushed prices *)
C21_WitnessConfigured ==
    \E w \in Workers :
        LET c == cyc[w] IN
        /\ notionConfigured /\ kvBound
        /\ c.pc = "done" /\ LoopEnded(c)
        /\ c.obs["L1"].decision = "send" /\ c.obs["L1"].level = "critical"
        /\ c.obs["L1"].wrote = "ok"
        /\ "putLastPriceUpdateTime" \in c.visited

-----------------------------------------------------------------------------
(* Claims about the threshold configuration, under SpecThresholds *)

(* HF_CRIT >= HF_WARN *)
Misconfigured == hfCrit >= hfWarn

(* positive thresholds pass createEnv, whatever their order *)
C22_Accepted ==
    \A w \in Workers :
        LET c == cyc[w] IN
        (hfWarn > 0 /\ hfCrit > 0 /\ "createEnv" \in c.visited /\ c.pc # "createEnv") =>
            /\ "createEnv" \notin c.raised
            /\ "fetch" \in c.visited

(* with HF_CRIT >= HF_WARN the classifier and the loop know two tiers only *)
C22_NoWarningTier ==
    (hfWarn > 0 /\ hfCrit > 0 /\ Misconfigured) =>
        /\ \A hf \in HealthFactorInputs :
               getRiskLevel(hf, Num(hfWarn), Num(hfCrit)) =
                   IF JsLt(hf, Num(hfCrit)) THEN "critical" ELSE "safe"
        /\ \A w \in Workers :
               LET c == cyc[w] IN
               /\ \A l \in Loans : c.obs[l].level # "warning"
               /\ c.pc \in {"shouldSendAlert", "sendAlert", "recordAlert"} =>
                      /\ CurLevel(c) = "critical"
                      /\ JsLt(CurLoan(c).healthFactor, Num(hfCrit))
               /\ LoopEnded(c) =>
                      \A k \in Indexes(c) :
                          /\ JsLt(c.snapshot[k].healthFactor, Num(hfCrit)) =>
                                 /\ ObsOf(c, k).decision \in {"send", "suppressed"}
                                 /\ ObsOf(c, k).decision = "send" =>
                                        ObsOf(c, k).level = "critical"
                          /\ ~JsLt(c.snapshot[k].healthFactor, Num(hfCrit)) =>
                                 ObsOf(c, k).decision = "safe"

(* C22: createEnv accepts every positive HF_WARN and HF_CRIT, HF_CRIT >= HF_WARN
   included, and under such a configuration getRiskLevel and the loop rate every
   loan critical (healthFactor < HF_CRIT) or safe, and no warning alert is
   dispatched. *)
C22_MisconfiguredThresholds == C22_Accepted /\ C22_NoWarningTier

(* with HF_CRIT = 1.7 and HF_WARN = 1.5, a loan at 1.5, within the warning band of
   the default configuration, was alerted as critical and a loan at 1.7 was not
   alerted *)
C22_Witness ==
    \E w \in Workers :
        LET c == cyc[w] IN
        /\ hfCrit = 17 /\ hfWarn = 15
        /\ c.pc = "done" /\ LoopEnded(c)
        /\ c.snapshot[1].healthFactor = Num(15)
        /\ c.snapshot[2].healthFactor = Num(17)
        /\ c.obs["L1"].level = "critical" /\ c.obs["L1"].sends = 1
        /\ c.obs["L2"].decision = "safe"

(* with HF_CRIT = HF_WARN = 1.5, a loan at 1.4 was alerted as critical *)
C22_WitnessEqual ==
    \E w \in Workers :
        LET c == cyc[w] IN
        /\ hfCrit = 15 /\ hfWarn = 15
        /\ c.pc = "done" /\ LoopEnded(c)
        /\ c.snapshot[1].healthFactor = Num(14)
        /\ c.obs["L1"].level = "critical" /\ c.obs["L1"].sends = 1

-----------------------------------------------------------------------------
(* Claims about sendAlert, under SpecSend *)

(* the HTTP attempts a call has made *)
Attempts == Len(send.log)

(* at most 1 + MAX_RETRIES attempts, and the call ends by returning a boolean *)
C24_Bounded ==
    /\ Attempts <= MAX_RETRIES + 1
    /\ send.result # "thrown"
    /\ send.pc = "returned" <=> send.result \in {"true", "false"}

(* a call that has not returned can make its next attempt *)
C24_NotStuck == send.pc = "attempt" => ENABLED SendAttempt

(* every step of a call is one more attempt *)
C24_Progress ==
    send.pc = "attempt" => Len(send'.log) = Attempts + 1

(* C24: for every sequence of outcomes of its HTTP attempts (success, 429, other
   error status, thrown network error), sendAlert makes at most 4 attempts, then
   returns a boolean, and never throws: it is never stuck, every step is one more
   attempt, and the attempts are bounded. *)
C24_BoundedRetries == [](C24_Bounded /\ C24_NotStuck) /\ [][C24_Progress]_vars

(* four attempts, rate limited and failing in a mix, then false *)
C24_Witness ==
    /\ send.pc = "returned" /\ send.result = "false"
    /\ send.log = <<"rateLimited", "networkError", "errorStatus", "rateLimited">>

(* four failed attempts, the waits between them adding up to 1 + 2 + 4 seconds *)
C24_WitnessBackoff ==
    /\ send.pc = "returned" /\ send.result = "false"
    /\ send.log = <<"networkError", "networkError", "networkError", "networkError">>
    /\ now = 7000

(* a successful response at position k of the log *)
OkAt(k) == send.log[k] = "ok"

(* C25: sendAlert returns true iff one of its attempts received a successful
   response, and that attempt is its last; it returns false when every attempt
   failed; without the Telegram token or the chat id it returns false having
   made no attempt. *)
C25_ReturnValue ==
    /\ \A k \in 1..Attempts : OkAt(k) => (k = Attempts /\ send.pc = "returned")
    /\ send.pc = "returned" =>
           /\ send.result = "true" <=> \E k \in 1..Attempts : OkAt(k)
           /\ send.result = "false" <=> \A k \in 1..Attempts : ~OkAt(k)
    /\ \A hasToken \in BOOLEAN, hasChatId \in BOOLEAN :
           (~hasToken \/ ~hasChatId) =>
               /\ sendAlertBegin(hasToken, hasChatId).pc = "returned"
               /\ sendAlertBegin(hasToken, hasChatId).result = "false"
               /\ sendAlertBegin(hasToken, hasChatId).log = <<>>

(* success at the fourth attempt, after three failures *)
C25_Witness ==
    /\ send.pc = "returned" /\ send.result = "true"
    /\ send.log = <<"rateLimited", "errorStatus", "networkError", "ok">>

(* a call without configuration has returned false with no attempt *)
C25_WitnessUnconfigured ==
    send.pc = "returned" /\ send.result = "false" /\ Attempts = 0

-----------------------------------------------------------------------------
(* Claims about delivery, under SpecDelivery *)

(* the transport has delivered the alert of the critical loan *)
C23_Delivered == cyc[1].obs["L1"].delivered = "ok"

(* the transport has returned false for the alert of the critical loan *)
C23_FailedDelivery == cyc[1].obs["L1"].delivered = "failed"

(* an invocation is about to hand the alert of the critical loan to the transport *)
C23_Reattempted == cyc[1].pc = "sendAlert" /\ CurLoan(cyc[1]).id = "L1"

(* C23: while a loan stays in the critical tier, with the store bound and the
   transport delivering every message from some point on, an alert for the loan is
   eventually delivered, and a delivery that failed in one cycle is followed by a
   later cycle that dispatches the alert again. *)
C23_AtLeastOnce == <>C23_Delivered /\ (C23_FailedDelivery ~> C23_Reattempted)

(* two deliveries have failed, each followed by its cooldown, and the third cycle
   to dispatch has delivered *)
C23_Witness ==
    /\ faults = MaxFaults
    /\ now = 2 * COOLDOWN_MS
    /\ cyc[1].obs["L1"].seen = "critical"
    /\ cyc[1].obs["L1"].delivered = "ok"

(* the cycle right after a failed delivery: the alert is suppressed, the record of
   the failed dispatch being younger than the cooldown *)
C23_WitnessSuppressed ==
    /\ faults = 1
    /\ now = COOLDOWN_MS \div 2
    /\ cyc[1].obs["L1"].seen = "critical"
    /\ cyc[1].obs["L1"].decision = "suppressed"

-----------------------------------------------------------------------------
(* Claims about SimpleCache, under SpecCache *)

(* the expiry of the most recent set of a key: set time + ttl seconds *)
ExpiryOfLastSet(key) ==
    cacheLog.lastSet[key].at + cacheLog.lastSet[key].ttlSeconds * 1000

(* get returns the value of the most recent set of the key while the time is at most
   its expiry, and undefined after it or when the key was never set *)
C26_GetReturns ==
    \A key \in HarnessKeys :
        (cacheLog.call.op = "get" /\ cacheLog.call.key = key) =>
            cacheLog.call.result =
                IF cacheLog.lastSet[key].set /\ now <= ExpiryOfLastSet(key)
                THEN cacheLog.lastSet[key].data
                ELSE Undefined

(* a get of an expired entry deletes it and leaves the other entries; getExpiry
   changes nothing and returns the expiry of the entry the Map holds *)
C26_Removal ==
    /\ \A key \in HarnessKeys :
           ( /\ cacheLog'.call.op = "get" /\ cacheLog'.call.key = key
             /\ cacheLog' # cacheLog /\ now' = now
             /\ cache[key].present /\ now > cache[key].expiresAt )
           => /\ cache'[key] = NoEntry
              /\ \A other \in CacheKeys \ {key} : cache'[other] = cache[other]
    /\ (cacheLog'.call.op = "getExpiry" /\ now' = now) => cache' = cache

(* C26: SimpleCache.get(key) returns the value of the most recent set(key, data,
   ttl) iff the current time is <= that entry's expiry (set time + ttl seconds) and
   undefined otherwise; a get on an expired entry removes it; getExpiry never
   removes or changes an entry. *)
C26_CacheExpiry == []C26_GetReturns /\ [][C26_Removal]_vars

(* a get at the very millisecond of the expiry returns the value *)
C26_Witness ==
    /\ cacheLog.call.op = "get" /\ cacheLog.call.key = "k1"
    /\ cacheLog.lastSet["k1"].set /\ cacheLog.lastSet["k1"].ttlSeconds = 1
    /\ now = ExpiryOfLastSet("k1")
    /\ cacheLog.call.result = JStr("a")

(* a get one millisecond later returned undefined and deleted the entry *)
C26_WitnessExpired ==
    /\ cacheLog.call.op = "get" /\ cacheLog.call.key = "k1"
    /\ cacheLog.lastSet["k1"].set /\ cacheLog.lastSet["k1"].ttlSeconds = 1
    /\ now = ExpiryOfLastSet("k1") + 1
    /\ cacheLog.call.result = Undefined
    /\ cache["k1"] = NoEntry

-----------------------------------------------------------------------------
(* Claims about the loan service's cache, under SpecLoans *)

(* the maximum cache age of the last call, in ms *)
MaxAgeOfCall ==
    IF svc.maxCacheAgeSeconds = Undefined THEN DefaultMaxAgeSeconds * 1000
    ELSE svc.maxCacheAgeSeconds.n * 1000

(* the last call returned cached data *)
ServedFromCache == svc.op # "none" /\ svc.source = "cache"

(* a call with forceRefresh never returns cached data *)
C28_ForceRefresh ==
    (svc.op # "none" /\ svc.forceRefresh) => svc.source \in {"fresh", "thrown"}

(* C28: getBasicLoans and getDetailedLoans return cached data only when its age is
   within the maximum age given in the fetch options (60 s by default), and with
   forceRefresh they never return cached data. *)
C28_MaxCacheAge ==
    /\ ServedFromCache => now - svc.data.fetchedAt <= MaxAgeOfCall
    /\ C28_ForceRefresh

-----------------------------------------------------------------------------
(* Claims about NotionAdapter, under SpecAdapter *)

(* the adapter's last call was op *)
AdapterCalled(op) == adapter.op = "created" /\ adapter.call.op = op

(* the adapter has the token, the database id *)
HasToken == JsTruthy(adapter.token)
HasDbId == JsTruthy(adapter.dbId)

(* C27: without NOTION_API_TOKEN, updatePriceDatabase returns {updated: 0, errors:
   [one entry for symbol 'all']} and getAssetSymbols returns the empty list, both
   without calling a client, whether or not one is set; with a token but no
   NOTION_PRICES_DB_ID and no client set, the call throws. *)
C27_MissingConfiguration ==
    /\ (AdapterCalled("updatePriceDatabase") /\ ~HasToken) =>
           /\ adapter.call.result = UpdateResult(0, <<"all">>)
           /\ ~adapter.call.calledClient
    /\ (AdapterCalled("getAssetSymbols") /\ ~HasToken) =>
           /\ adapter.call.result = SymbolList(<<>>)
           /\ ~adapter.call.calledClient
    /\ (adapter.op = "created" /\ ~HasToken) => adapter.clientCalls = 0
    /\ ( /\ adapter.op = "created" /\ adapter.call.op # "none"
         /\ HasToken /\ ~HasDbId /\ ~adapter.call.hadClient ) =>
           /\ adapter.call.result = Thrown
           /\ ~adapter.call.calledClient
           /\ adapter.client = "none"

(* without the token and with a client set, updatePriceDatabase has answered for
   itself *)
C27_Witness ==
    /\ AdapterCalled("updatePriceDatabase")
    /\ ~HasToken /\ HasDbId
    /\ adapter.call.hadClient
    /\ adapter.call.result = UpdateResult(0, <<"all">>)

(* with the token and without the database id, getAssetSymbols has thrown *)
C27_WitnessThrows ==
    /\ AdapterCalled("getAssetSymbols")
    /\ HasToken /\ ~HasDbId
    /\ adapter.call.result = Thrown

(* with the token, without the database id and with a client set, the client
   answers *)
C27_WitnessClientSet ==
    /\ AdapterCalled("updatePriceDatabase")
    /\ HasToken /\ ~HasDbId
    /\ adapter.call.calledClient
    /\ adapter.call.result = UpdateResult(1, <<"DJED">>)

-----------------------------------------------------------------------------
(* Claims about calculateHealthFactor, under SpecCalc *)

(* a number other than 0, +Infinity included *)
NonZero(v) == v = Infinity \/ (v.t = "number" /\ v.n # 0)

(* the liquidation threshold of the call, in thousandths *)
ThresholdUsed ==
    IF hfCalc.liquidationThreshold = Undefined THEN DefaultLiquidationThreshold
    ELSE hfCalc.liquidationThreshold.n

(* C29: calculateHealthFactor returns the loan's own health factor when it is
   non-zero; otherwise, with non-zero collateral value, Infinity when the borrowed
   amount is 0 and collateralValue * liquidationThreshold / borrowedAmount when it
   is another number; with zero collateral value it returns 0, which getRiskLevel
   rates critical. *)
C29_HealthFactor ==
    hfCalc.op = "called" =>
        LET loan == hfCalc.loan
            out == hfCalc.out
        IN /\ NonZero(loan.healthFactor) => out = loan.healthFactor
           /\ (loan.healthFactor = Num(0) /\ NonZero(loan.collateralValue)) =>
                  /\ loan.borrowedAmount = Num(0) => out = Infinity
                  /\ NonZero(loan.borrowedAmount) =>
                         /\ out.t = "number"
                         /\ out.n * loan.borrowedAmount.n =
                                loan.collateralValue.n * ThresholdUsed
                  /\ loan.borrowedAmount = NaN => out = NaN
           /\ (loan.healthFactor = Num(0) /\ loan.collateralValue = Num(0)) =>
                  /\ out = Num(0)
                  /\ getRiskLevel(out, Undefined, Undefined) = "critical"
                  /\ getRiskLevel(out, Num(1700), Num(1500)) = "critical"

(* collateral 1000, borrowed 500, default threshold: 1.65 *)
C29_Witness ==
    /\ hfCalc.op = "called"
    /\ hfCalc.loan = [healthFactor |-> Num(0), collateralValue |-> Num(1000),
                      borrowedAmount |-> Num(500)]
    /\ hfCalc.liquidationThreshold = Undefined
    /\ hfCalc.out = Num(1650)

(* no debt: Infinity *)
C29_WitnessInfinity ==
    /\ hfCalc.op = "called"
    /\ hfCalc.loan.healthFactor = Num(0)
    /\ hfCalc.loan.collateralValue = Num(2000)
    /\ hfCalc.loan.borrowedAmount = Num(0)
    /\ hfCalc.out = Infinity

(* the loan's own health factor, with collateral and debt at hand *)
C29_WitnessOwn ==
    /\ hfCalc.op = "called"
    /\ hfCalc.loan = [healthFactor |-> Num(1800), collateralValue |-> Num(1000),
                      borrowedAmount |-> Num(500)]
    /\ hfCalc.out = Num(1800)

(* nothing to compute from: 0 *)
C29_WitnessInsufficient ==
    /\ hfCalc.op = "called"
    /\ hfCalc.loan.healthFactor = Num(0)
    /\ hfCalc.loan.collateralValue = Num(0)
    /\ hfCalc.out = Num(0)

-----------------------------------------------------------------------------
(* Claims about the threshold checks of the loop and getRiskLevel, under
   SpecThresholds *)

(* getRiskLevel of a health factor under the configured HF_WARN and HF_CRIT *)
RiskOf(healthFactor) == getRiskLevel(healthFactor, Num(hfWarn), Num(hfCrit))

(* the loop has gone past the k-th loan of the snapshot *)
Processed(c, k) == k < c.i

(* the alert level the threshold checks select is the tier of getRiskLevel *)
C30_SameTier ==
    \A hf \in HealthFactorInputs :
        /\ InlineLevel(hf) = "critical" <=> RiskOf(hf) = "critical"
        /\ InlineLevel(hf) = "warning" <=> RiskOf(hf) = "warning"
        /\ InlineLevel(hf) = "none" <=> RiskOf(hf) = "safe"

(* the alert path a cycle is on is that of the tier of the loan it is at *)
C30_PathTaken ==
    \A w \in Workers :
        LET c == cyc[w] IN
        c.pc \in {"shouldSendAlert", "sendAlert", "recordAlert"} =>
            /\ RiskOf(CurLoan(c).healthFactor) \in {"critical", "warning"}
            /\ CurLevel(c) = RiskOf(CurLoan(c).healthFactor)

(* what a cycle has done for each loan is what the tier of the loan calls for *)
C30_PathsDone ==
    \A w \in Workers :
        LET c == cyc[w] IN
        \A k \in Indexes(c) :
            LET o == ObsOf(c, k)
                risk == RiskOf(c.snapshot[k].healthFactor)
            IN /\ risk = "safe" =>
                      /\ o.seen = "none" /\ o.sends = 0 /\ o.delivered = "none"
                      /\ o.wrote = "none" /\ o.decision \in {"none", "safe"}
               /\ o.decision \in {"send", "suppressed"} => o.seen # "none"
               /\ Processed(c, k) =>
                      /\ risk = "safe" <=> o.decision = "safe"
                      /\ risk # "safe" <=> o.decision \in {"send", "suppressed"}
               /\ o.sends > 0 => o.level = risk

(* C30: for every loan and every HF_WARN and HF_CRIT that createEnv accepts, the
   cycle takes the critical alert path iff getRiskLevel(healthFactor, HF_WARN,
   HF_CRIT) is critical, the warning path iff it is warning, and calls neither
   shouldSendAlert nor sendAlert for the loan iff it is safe. *)
C30_RefinesClassifier == C30_SameTier /\ C30_PathTaken /\ C30_PathsDone

(* under HF_WARN = 1.7 and HF_CRIT = 1.5 a cycle alerted a loan at 1.4 as critical
   and a loan at 1.5 as warning *)
C30_Witness ==
    \E w \in Workers :
        LET c == cyc[w] IN
        /\ hfWarn = 17 /\ hfCrit = 15
        /\ c.pc = "done"
        /\ Processed(c, 1) /\ Processed(c, 2)
        /\ c.snapshot[1].healthFactor = Num(14)
        /\ c.snapshot[2].healthFactor = Num(15)
        /\ RiskOf(Num(14)) = "critical" /\ RiskOf(Num(15)) = "warning"
        /\ c.obs["L1"].sends = 1 /\ c.obs["L1"].level = "critical"
        /\ c.obs["L2"].sends = 1 /\ c.obs["L2"].level = "warning"

(* a loan at the warning threshold was passed over without a call *)
C30_WitnessSafe ==
    \E w \in Workers :
        LET c == cyc[w] IN
        /\ hfWarn = 17 /\ hfCrit = 15
        /\ c.pc = "done"
        /\ Processed(c, 1) /\ Processed(c, 2)
        /\ c.snapshot[1].healthFactor = Num(17)
        /\ RiskOf(Num(17)) = "safe"
        /\ c.obs["L1"] = [NoObs EXCEPT !.decision = "safe"]
        /\ c.obs["L2"].sends = 1

-----------------------------------------------------------------------------
(* Claims about the order of the steps of a cycle, under Spec *)

(* for each loan: the decision, then the dispatch, then the record; no dispatch and
   no record without a true decision of the same cycle *)
C31_StepOrder ==
    \A w \in Workers :
        LET c == cyc[w] IN
        /\ \A l \in Loans :
               LET o == c.obs[l] IN
               /\ o.sends > 0 => (o.decision = "send" /\ o.seen # "none")
               /\ o.wrote # "none" => o.sends > 0
               /\ o.sends <= 1
        /\ c.pc = "shouldSendAlert" => ObsOf(c, c.i) = NoObs
        /\ c.pc = "sendAlert" =>
               /\ ObsOf(c, c.i).decision = "send"
               /\ ObsOf(c, c.i).sends = 0 /\ ObsOf(c, c.i).wrote = "none"
        /\ c.pc = "recordAlert" =>
               /\ ObsOf(c, c.i).decision = "send"
               /\ ObsOf(c, c.i).sends = 1 /\ ObsOf(c, c.i).wrote = "none"

(* loans are handled one after another in snapshot order: nothing is done for a
   loan before the loop is at it, nor after the loop has gone past it *)
C31_SnapshotOrder ==
    \A w \in Workers :
        LET c == cyc[w] IN
        /\ \A k \in Indexes(c) : k > c.i => ObsOf(c, k) = NoObs
        /\ \A k \in Indexes(c) : k < c.i => ObsOf(c, k).decision # "none"
        /\ c.pc \in {"shouldSendAlert", "sendAlert", "recordAlert"} => c.i \in Indexes(c)

(* a step of a cycle moves the loop forward by at most one loan and changes only
   what was done for the loan the loop is at *)
C31_OneLoanAtATime ==
    \A w \in Workers :
        LET c == cyc[w] IN
        (c.pc \in {"loop", "shouldSendAlert", "sendAlert", "recordAlert"}
             /\ cyc'[w] # c) =>
            /\ cyc'[w].snapshot = c.snapshot
            /\ cyc'[w].i \in {c.i, c.i + 1}
            /\ \A k \in Indexes(c) : k # c.i => ObsOf(cyc'[w], k) = ObsOf(c, k)
            /\ cyc'[w].i = c.i + 1 => ObsOf(cyc'[w], c.i).decision # "none"

(* the price-mirror step starts only after the last loan has been processed *)
C31_MirrorAfterLoop ==
    \A w \in Workers :
        LET c == cyc[w] IN
        c.pc \in MirrorPcs =>
            /\ c.i = Len(c.snapshot) + 1
            /\ \A k \in Indexes(c) : ObsOf(c, k).decision \in {"safe", "send", "suppressed"}
            /\ \A k \in Indexes(c) :
                   ObsOf(c, k).decision = "send" =>
                       (ObsOf(c, k).sends = 1 /\ ObsOf(c, k).wrote # "none")

(* C31: in a cycle the steps for a loan occur in the order shouldSendAlert,
   dispatch, recordAlert; a dispatch or a record never happens without a true
   decision for that loan in the same cycle; loans are handled one after another in
   snapshot order; and the price-mirror step starts only after the last loan has
   been processed. *)
C31_CycleOrdering ==
    /\ [](C31_StepOrder /\ C31_SnapshotOrder /\ C31_MirrorAfterLoop)
    /\ [][C31_OneLoanAtATime]_vars

(* the mirror step has started after two alerts were decided, sent and recorded,
   first for L1 and then for L2 *)
C31_Witness ==
    \E w \in Workers :
        LET c == cyc[w] IN
        /\ c.pc = "getLastPriceUpdateTime"
        /\ c.i = 3
        /\ \A l \in Loans :
               /\ c.obs[l].decision = "send"
               /\ c.obs[l].sends = 1
               /\ c.obs[l].wrote = "ok"

(* the alert of L1 is sent and recorded while nothing has been done for L2 *)
C31_WitnessFirstLoan ==
    \E w \in Workers :
        LET c == cyc[w] IN
        /\ c.pc = "loop" /\ c.i = 2
        /\ c.obs["L1"].sends = 1 /\ c.obs["L1"].wrote = "ok"
        /\ c.snapshot[2].healthFactor = Num(14)
        /\ c.obs["L2"] = NoObs

-----------------------------------------------------------------------------
(* Claims about the rate of the alerts of a loan, under SpecRate *)

(* the sendAlert calls logged for a loan, oldest first *)
LogOf(loanId) == dispatchLog.of[loanId]

(* two consecutive dispatches for a loan are a cooldown apart, unless a warning is
   followed by a critical *)
C32_ConsecutiveApart ==
    \A l \in Loans :
        \A k \in 1..(Len(LogOf(l)) - 1) :
            \/ LogOf(l)[k + 1].time - LogOf(l)[k].time >= COOLDOWN_MS
            \/ (LogOf(l)[k].level = "warning" /\ LogOf(l)[k + 1].level = "critical")

(* two dispatches of the same tier for a loan are never closer than the cooldown *)
C32_SameTierApart ==
    \A l \in Loans :
        \A j, k \in 1..Len(LogOf(l)) :
            (j < k /\ LogOf(l)[j].level = LogOf(l)[k].level) =>
                LogOf(l)[k].time - LogOf(l)[j].time >= COOLDOWN_MS

(* no window shorter than the cooldown holds more than two dispatches for a loan *)
C32_TwoPerWindow ==
    \A l \in Loans :
        \A k \in 1..(Len(LogOf(l)) - 2) :
            LogOf(l)[k + 2].time - LogOf(l)[k].time >= COOLDOWN_MS

(* C32: over non-overlapping cycles with a store whose reads and writes succeed, two
   consecutive dispatches for the same loan are at least COOLDOWN_MS apart unless the
   earlier is warning and the later critical; two dispatches of the same tier for a
   loan are never closer than COOLDOWN_MS, and no window shorter than COOLDOWN_MS
   holds more than two dispatches for a loan. *)
C32_RateLimit == C32_ConsecutiveApart /\ C32_SameTierApart /\ C32_TwoPerWindow

(* a warning, its escalation a millisecond later, and the next critical alert one
   cooldown after the escalation *)
C32_Witness ==
    /\ Len(LogOf("L1")) = 3
    /\ LogOf("L1")[1] = [level |-> "warning", time |-> 0, delivered |-> TRUE]
    /\ LogOf("L1")[2] = [level |-> "critical", time |-> 1, delivered |-> TRUE]
    /\ LogOf("L1")[3] = [level |-> "critical", time |-> COOLDOWN_MS + 1, delivered |-> TRUE]

(* a critical alert is suppressed one millisecond before the cooldown of the last
   one ends *)
C32_WitnessSuppressed ==
    /\ LogOf("L1") = <<[level |-> "critical", time |-> 1, delivered |-> TRUE]>>
    /\ now = COOLDOWN_MS
    /\ cyc[1].pc = "done"
    /\ cyc[1].snapshot[1].healthFactor = Num(14)
    /\ cyc[1].obs["L1"].decision = "suppressed"

-----------------------------------------------------------------------------
(* Claims about overlapping invocations, under SpecOverlap *)

(* no lock: an invocation at shouldSendAlert, sendAlert or recordAlert can take its
   step wherever the other invocation is *)
C33_NoLock ==
    \A w \in Workers :
        /\ cyc[w].pc = "shouldSendAlert" => ENABLED ShouldSend(w)
        /\ cyc[w].pc = "sendAlert" => ENABLED SendAlert(w)
        /\ cyc[w].pc = "recordAlert" => ENABLED RecordAlert(w)

(* the store holds one record per loan, that of the last recordAlert *)
C33_LastWriteWins ==
    \A l \in Loans :
        IF lastRec[l] = NoRecord THEN KvGet(AlertKey(l)) = NoValue
        ELSE KvGet(AlertKey(l)) =
                 RecordOf(l, lastRec[l].level, lastRec[l].timestamp)

(* both invocations have dispatched an alert of the same tier for L1 *)
BothDispatched ==
    /\ \A w \in Workers : cyc[w].obs["L1"].sends = 1
    /\ cyc[1].obs["L1"].level = cyc[2].obs["L1"].level

(* C33: no lock is held between the read of alert:{loanId} and its write, so two
   overlapping cycles can both dispatch an alert of the same tier for the same loan
   inside one cooldown window; the store then holds a single record for the loan,
   that of the last write. *)
C33_OverlapDuplicates == C33_NoLock /\ C33_LastWriteWins

(* both invocations have sent a critical alert for L1, 1 ms apart, and both have
   written the record: the store holds that of the second *)
C33_Witness ==
    /\ BothDispatched
    /\ \A w \in Workers : cyc[w].obs["L1"].wrote = "ok" /\ cyc[w].obs["L1"].seen = "absent"
    /\ LogOf("L1") = <<[level |-> "critical", time |-> 0, delivered |-> TRUE],
                       [level |-> "critical", time |-> 1, delivered |-> TRUE]>>
    /\ ~C32_ConsecutiveApart
    /\ lastRec["L1"].timestamp \in {1, 2}
    /\ KvGet(AlertKey("L1")) = RecordOf("L1", "critical", lastRec["L1"].timestamp)

-----------------------------------------------------------------------------
(* Claims about alerts that were not delivered, under SpecAttempt *)

(* the last sendAlert call logged for a loan *)
LastDispatch(loanId) == LogOf(loanId)[Len(LogOf(loanId))]

(* recordAlert follows every warning or critical sendAlert call, whatever it
   resolved to *)
C34_AlwaysRecorded ==
    \A w \in Workers :
        LET c == cyc[w] IN
        /\ c.pc = "recordAlert" => ObsOf(c, c.i).delivered \in {"ok", "failed"}
        /\ \A l \in Loans :
               c.obs[l].sends = 1 =>
                   \/ c.pc = "recordAlert" /\ CurLoan(c).id = l
                   \/ c.obs[l].wrote = "ok"

(* the record of a loan is that of its last dispatch attempt, delivered or not *)
C34_RecordOfAttempt ==
    \A l \in Loans :
        (Len(LogOf(l)) > 0
             /\ ~(\E w \in Workers : cyc[w].pc = "recordAlert" /\ CurLoan(cyc[w]).id = l)) =>
            /\ KvGet(AlertKey(l)) = RecordOf(l, LastDispatch(l).level, LastDispatch(l).time)
            /\ lastRec[l] = [level |-> LastDispatch(l).level,
                             timestamp |-> LastDispatch(l).time]

(* an alert of the tier of the last attempt is suppressed while that attempt, failed
   or not, is younger than the cooldown *)
C34_SuppressedAfterAttempt ==
    \A w \in Workers :
        LET c == cyc[w] IN
        (c.pc = "shouldSendAlert" /\ cyc'[w] # c) =>
            LET l == CurLoan(c).id IN
            (Len(LogOf(l)) > 0 /\ LastDispatch(l).level = CurLevel(c)
                 /\ now - LastDispatch(l).time < COOLDOWN_MS) =>
                /\ cyc'[w].obs[l].decision = "suppressed"
                /\ cyc'[w].pc = "loop"

(* C34: recordAlert is called after every warning or critical sendAlert call whatever
   boolean it returned, so a delivery that failed still writes the AlertRecord and
   the same-tier alert for that loan is suppressed for the following COOLDOWN_MS. *)
C34_CooldownFromAttempt ==
    /\ [](C34_AlwaysRecorded /\ C34_RecordOfAttempt)
    /\ [][C34_SuppressedAfterAttempt]_vars

(* the only critical alert of L1 was not delivered; 1 ms before its cooldown ends
   the next one is suppressed *)
C34_Witness ==
    /\ LogOf("L1") = <<[level |-> "critical", time |-> 0, delivered |-> FALSE]>>
    /\ KvGet(AlertKey("L1")) = RecordOf("L1", "critical", 0)
    /\ now = COOLDOWN_MS - 1
    /\ cyc[1].pc = "done"
    /\ cyc[1].obs["L1"].decision = "suppressed"
    /\ cyc[1].obs["L1"].sends = 0

(* the alert that follows the failed one is sent once the cooldown is over *)
C34_WitnessResent ==
    /\ Len(LogOf("L1")) = 2
    /\ LogOf("L1")[1] = [level |-> "critical", time |-> 0, delivered |-> FALSE]
    /\ LogOf("L1")[2].level = "critical"
    /\ LogOf("L1")[2].time = COOLDOWN_MS

-----------------------------------------------------------------------------
(* Claims about what a cycle leaves in the store for a loan, under SpecRate *)

(* what the store holds for a loan whose last dispatch is logged: the record of
   that dispatch, and nothing for a loan never dispatched *)
RecordOfLastDispatch(loanId) ==
    IF Len(LogOf(loanId)) = 0 THEN NoValue
    ELSE RecordOf(loanId, LastDispatch(loanId).level, LastDispatch(loanId).time)

(* alert:{loanId} changes only in the recordAlert call that follows a dispatch for
   that loan *)
C35_OnlyDispatchWrites ==
    \A l \in Loans :
        kv'[AlertKey(l)] # kv[AlertKey(l)] =>
            \E w \in Workers :
                /\ cyc[w].pc = "recordAlert"
                /\ CurLoan(cyc[w]).id = l
                /\ cyc[w].obs[l].sends = 1
                /\ cyc'[w].obs[l].wrote = "ok"

(* a cycle that finds the loan safe or suppresses its alert leaves level and
   timestamp of the record as the last dispatch wrote them *)
C35_RecordKept ==
    \A w \in Workers :
        \A l \in Loans :
            cyc[w].obs[l].decision \in {"safe", "suppressed"} =>
                /\ cyc[w].obs[l].wrote = "none"
                /\ KvGet(AlertKey(l)) = RecordOfLastDispatch(l)

(* an alert is suppressed only after a dispatch, whose time the record keeps *)
C35_SuppressedAfterDispatch ==
    \A w \in Workers :
        \A l \in Loans :
            cyc[w].obs[l].decision = "suppressed" =>
                /\ Len(LogOf(l)) > 0
                /\ lastRec[l].timestamp = LastDispatch(l).time

(* a loan that is in the tier of its last dispatch again, inside the cooldown of that
   dispatch, is suppressed, whatever the cycles in between found *)
C35_ReentrySuppressed ==
    \A w \in Workers :
        LET c == cyc[w] IN
        (c.pc = "shouldSendAlert" /\ cyc'[w] # c) =>
            LET l == CurLoan(c).id IN
            (Len(LogOf(l)) > 0 /\ LastDispatch(l).level = CurLevel(c)
                 /\ now - LastDispatch(l).time < COOLDOWN_MS) =>
                cyc'[w].obs[l].decision = "suppressed"

(* C35: a cycle changes alert:{loanId} only when it dispatches an alert for that
   loan; when the loan is safe or its alert is suppressed the stored level and
   timestamp are unchanged, so suppression never extends the cooldown, a return to
   safe never clears the record, and a re-entry into the same tier within the
   cooldown of the last alert stays suppressed. *)
C35_RecordOnlyOnDispatch ==
    /\ [](C35_RecordKept /\ C35_SuppressedAfterDispatch)
    /\ [][C35_OnlyDispatchWrites /\ C35_ReentrySuppressed]_vars

(* L1 was alerted as critical at 0; a cycle 1 ms later finds it safe and the record
   is still there *)
C35_Witness ==
    /\ cyc[1].pc = "done"
    /\ now = 1
    /\ cyc[1].snapshot[1].healthFactor = Num(17)
    /\ cyc[1].obs["L1"].decision = "safe"
    /\ LogOf("L1") = <<[level |-> "critical", time |-> 0, delivered |-> TRUE]>>
    /\ KvGet(AlertKey("L1")) = RecordOf("L1", "critical", 0)

(* the alert of L1 is suppressed 1 ms before the cooldown ends, its record keeps
   the timestamp 0 *)
C35_WitnessSuppressed ==
    /\ cyc[1].pc = "done"
    /\ now = COOLDOWN_MS - 1
    /\ cyc[1].obs["L1"].decision = "suppressed"
    /\ KvGet(AlertKey("L1")) = RecordOf("L1", "critical", 0)

(* after suppressed cycles the next alert is sent exactly one cooldown after the
   last one *)
C35_WitnessNotExtended ==
    /\ LogOf("L1") = <<[level |-> "critical", time |-> 0, delivered |-> TRUE],
                       [level |-> "critical", time |-> COOLDOWN_MS, delivered |-> TRUE]>>
    /\ ticks = 2

-----------------------------------------------------------------------------
(* Runs that start with text that is not a number or a record in the store *)

MaxCorruptTicks == 2

(* a cycle starts more than a full error-alert cooldown after the one before *)
CorruptTickSteps == {ERROR_ALERT_COOLDOWN_MS + 1}

(* a non-empty value that is neither a decimal number nor JSON *)
Corrupted == Text("corrupted")
CorruptEntries == {Absent, [val |-> Corrupted, exp |-> NoExp]}

CorruptInit ==
    /\ now = 0
    /\ ticks = 0
    /\ kvBound = TRUE
    /\ kv \in [Keys -> CorruptEntries]
    /\ kv[AlertKey("L2")] = Absent
    /\ lastRec = [l \in Loans |-> NoRecord]
    /\ envValid = TRUE
    /\ notionConfigured = TRUE
    /\ hfWarn = 17 /\ hfCrit = 15
    /\ cyc = [w \in Workers |-> IdleCycle]
    /\ faults = 0
    /\ errorAlertAt = NoExp
    /\ dispatchLog = NoDispatches
    /\ AMUnused /\ RiskUnused /\ LibUnused

CorruptTick ==
    /\ \A w \in Workers : cyc[w].pc = "idle"
    /\ Tick(CorruptTickSteps, MaxCorruptTicks)
    /\ UNCHANGED <<lastRec, ret, envVars, cyc, riskVars, faults, libVars>>

CorruptCycle ==
    /\ Cycle(1)
    /\ cyc'[1].snapshot \in {<<>>, SteadySnapshot}

CorruptNext ==
    \/ CorruptCycle
    \/ CorruptTick

SpecCorrupt == CorruptInit /\ [][CorruptNext]_vars

-----------------------------------------------------------------------------
(* Claims about the three uses of the store, under Spec *)

(* the keys whose value a step changes *)
KeysChanged == {key \in Keys : kv'[key] # kv[key]}

(* the main try block of the cycle has raised an error *)
HasFailed(c) == c.raised \cap TryPcs # {}

(* each part of the cycle writes its own keys only *)
C36_DisjointWrites ==
    \A w \in Workers :
        LET c == cyc[w] IN
        cyc'[w] # c =>
            /\ c.pc = "recordAlert" => KeysChanged \subseteq {AlertKey(CurLoan(c).id)}
            /\ c.pc \in TryPcs \ {"recordAlert"} => KeysChanged = {}
            /\ c.pc \in MirrorPcs => KeysChanged \subseteq {"lastPriceUpdateTime"}
            /\ c.pc \in ErrorPcs => KeysChanged \subseteq {"lastErrorAlertTime"}
            /\ c.pc \in {"idle", "done"} => KeysChanged = {}

(* a step of the mirror step, whatever comes of it, leaves the alert records and the
   alerts the cycle has dispatched as they are *)
C36_MirrorLeavesAlerts ==
    \A w \in Workers :
        LET c == cyc[w] IN
        (c.pc \in MirrorPcs /\ cyc'[w] # c) =>
            /\ cyc'[w].obs = c.obs
            /\ cyc'[w].pc \in MirrorPcs \cup {"done"}
            /\ lastRec' = lastRec
            /\ \A l \in Loans : kv'[AlertKey(l)] = kv[AlertKey(l)]

(* a cycle that does not fail never writes lastErrorAlertTime, and a cycle whose
   mirror step fails does not fail *)
C36_ErrorKeyOnlyOnFailure ==
    \A w \in Workers :
        LET c == cyc[w] IN
        /\ ~HasFailed(c) => c.pc \notin ErrorPcs /\ c.visited \cap ErrorPcs = {}
        /\ c.raised \cap MirrorPcs # {} => ~HasFailed(c)

(* C36: loan processing writes only keys alert:{loanId}, the mirror step writes only
   lastPriceUpdateTime, and the error path writes only lastErrorAlertTime; the
   outcome of the mirror step never changes an alert record or which loan alerts the
   cycle dispatched, and a cycle that does not fail never writes
   lastErrorAlertTime. *)
C36_DisjointStoreUses ==
    /\ []C36_ErrorKeyOnlyOnFailure
    /\ [][C36_DisjointWrites /\ C36_MirrorLeavesAlerts]_vars

(* the three kinds of key are all written: an alert record, the time of a price
   update and the time of an error alert *)
C36_Witness ==
    /\ KvGet(AlertKey("L1")) # NoValue
    /\ KvGet("lastPriceUpdateTime") # NoValue
    /\ KvGet("lastErrorAlertTime") # NoValue

(* the mirror step failed after an alert was sent and recorded: the cycle ends
   without the error path, the record is in the store *)
C36_WitnessMirrorFailed ==
    \E w \in Workers :
        LET c == cyc[w] IN
        /\ c.pc = "done"
        /\ c.raised \cap MirrorPcs # {}
        /\ c.obs["L1"].sends = 1 /\ c.obs["L1"].wrote = "ok"
        /\ KvGet(AlertKey("L1")) = RecordOf("L1", c.obs["L1"].level, lastRec["L1"].timestamp)
        /\ KvGet("lastErrorAlertTime") = NoValue

-----------------------------------------------------------------------------
(* Claims about a cycle whose environment does not validate, under SpecThresholds *)

(* the positions a cycle with an invalid environment passes through *)
InvalidEnvPcs == {"idle", "createEnv", "getLastErrorAlertTime", "errCreateEnv", "done"}

(* with an invalid environment no alert of any level has been sent and the store is as
   it was at the start *)
C37_NothingSent ==
    ~envValid =>
        /\ errorAlertAt = NoExp
        /\ kv = [key \in Keys |-> Absent]
        /\ \A w \in Workers :
            /\ cyc[w].pc \in InvalidEnvPcs
            /\ cyc[w].visited \subseteq InvalidEnvPcs
            /\ \A l \in Loans : cyc[w].obs[l] = NoObs

(* the first createEnv raises, and when the throttle lets the error path go on, the
   second createEnv raises too and the cycle ends there *)
C37_SecondFailureCaught ==
    \A w \in Workers :
        LET c == cyc[w] IN
        (~envValid /\ c.pc = "done") =>
            /\ "createEnv" \in c.raised
            /\ "getLastErrorAlertTime" \in c.visited
            /\ "errCreateEnv" \in c.visited => "errCreateEnv" \in c.raised
            /\ "getLastErrorAlertTime" \notin c.raised => "errCreateEnv" \in c.raised

(* no step of a cycle with an invalid environment changes the store or sends *)
C37_NoWrite ==
    ~envValid => kv' = kv /\ errorAlertAt' = errorAlertAt /\ lastRec' = lastRec

(* C37: when createEnv fails, the cycle sends no alert of any level and writes no store
   key: the error path validates the environment again before sending, that second
   failure is caught and only logged, and lastErrorAlertTime stays unchanged. *)
C37_InvalidEnvSilent ==
    /\ [](C37_NothingSent /\ C37_SecondFailureCaught)
    /\ [][C37_NoWrite]_vars

(* a cycle with a threshold that is not positive has ended: both createEnv calls
   raised, with nothing under lastErrorAlertTime *)
C37_Witness ==
    \E w \in Workers :
        LET c == cyc[w] IN
        /\ ~envValid /\ (hfWarn <= 0 \/ hfCrit <= 0)
        /\ c.pc = "done"
        /\ c.raised = {"createEnv", "errCreateEnv"}
        /\ KvGet("lastErrorAlertTime") = NoValue
        /\ errorAlertAt = NoExp

-----------------------------------------------------------------------------
(* Claims about a throttle time that does not parse, under SpecCorrupt *)

(* the positions of the error alert and of the price update, past their throttles *)
ErrorActionPcs == {"errCreateEnv", "errSendAlert", "putLastErrorAlertTime"}
MirrorActionPcs == {"getAssetSymbols", "getPrices", "updatePriceDatabase",
                    "putLastPriceUpdateTime"}

(* while lastErrorAlertTime holds the corrupted text, no cycle gets past the throttle
   of the error alert and no error alert has gone out *)
C38_ErrorAlertSkipped ==
    KvGet("lastErrorAlertTime") = Corrupted =>
        /\ errorAlertAt = NoExp
        /\ \A w \in Workers :
            /\ cyc[w].pc \notin ErrorActionPcs
            /\ cyc[w].visited \cap ErrorActionPcs = {}

(* while lastPriceUpdateTime holds the corrupted text, no cycle gets past the throttle
   of the price update *)
C38_PriceUpdateSkipped ==
    KvGet("lastPriceUpdateTime") = Corrupted =>
        \A w \in Workers :
            /\ cyc[w].pc \notin MirrorActionPcs
            /\ cyc[w].visited \cap MirrorActionPcs = {}
            /\ cyc[w].mirrorResult = "none"

(* the skip is not a quiet one: building the log line of the skip branch raises, and
   the enclosing catch ends the step *)
C38_SkipRaises ==
    \A w \in Workers :
        LET c == cyc[w] IN
        /\ (KvGet("lastErrorAlertTime") = Corrupted /\ c.pc = "done"
              /\ "getLastErrorAlertTime" \in c.visited)
             => "getLastErrorAlertTime" \in c.raised
        /\ (KvGet("lastPriceUpdateTime") = Corrupted /\ c.pc = "done"
              /\ "getLastPriceUpdateTime" \in c.visited)
             => "getLastPriceUpdateTime" \in c.raised

(* a corrupted throttle time is never rewritten *)
C38_StaysCorrupted ==
    \A key \in {"lastErrorAlertTime", "lastPriceUpdateTime"} :
        kv[key].val = Corrupted => kv'[key] = kv[key]

(* the loan cooldown allows on a record it cannot read *)
C38_CooldownAllows ==
    \A w \in Workers : \A l \in Loans :
        cyc[w].obs[l].seen = "malformed" => cyc[w].obs[l].decision = "send"

(* C38: when lastErrorAlertTime (or lastPriceUpdateTime) holds a non-empty value that
   does not parse as a number, the throttled action is skipped in that cycle and,
   the key being rewritten by the action only, in every later cycle, unlike the loan
   cooldown, which allows on an unreadable record. *)
C38_ThrottlesFailClosed ==
    /\ [](C38_ErrorAlertSkipped /\ C38_PriceUpdateSkipped /\ C38_SkipRaises
            /\ C38_CooldownAllows)
    /\ [][C38_StaysCorrupted]_vars

(* a failed cycle, two cooldowns after the start, has gone through the error path with
   the corrupted time still in the store and no error alert sent *)
C38_Witness ==
    \E w \in Workers :
        LET c == cyc[w] IN
        /\ ticks = MaxCorruptTicks
        /\ now > ERROR_ALERT_COOLDOWN_MS
        /\ c.pc = "done"
        /\ "fetch" \in c.raised
        /\ "getLastErrorAlertTime" \in c.raised
        /\ KvGet("lastErrorAlertTime") = Corrupted
        /\ errorAlertAt = NoExp
        /\ faults = 1

(* a cycle, two intervals after the start, sent the alert of a loan whose record was
   corrupted and skipped the price update whose time is corrupted *)
C38_WitnessMirror ==
    \E w \in Workers :
        LET c == cyc[w] IN
        /\ ticks = MaxCorruptTicks
        /\ c.pc = "done"
        /\ c.obs["L1"].seen = "malformed" /\ c.obs["L1"].sends = 1
        /\ "getLastPriceUpdateTime" \in c.raised
        /\ KvGet("lastPriceUpdateTime") = Corrupted
        /\ faults = 0

-----------------------------------------------------------------------------
(* Claims about NotionClient.updatePriceDatabase, under SpecNotion *)

(* the call is in its loop or has returned *)
PastQuery == notion.pc \in {"rows", "returned"}

(* one request per symbol, in the order of the input: an update when a row has the
   symbol as its title, a create otherwise *)
C39_UpdateOrCreate ==
    PastQuery =>
        /\ Len(notion.requests) = notion.i - 1
        /\ Len(notion.requests) <= Len(notion.prices)
        /\ \A k \in 1..Len(notion.requests) :
            /\ notion.requests[k].symbol = notion.prices[k]
            /\ notion.requests[k].kind =
                 IF notion.prices[k] \in notion.existingRows THEN "update" ELSE "create"

(* updated counts the requests that went through and errors lists, in order, the
   symbols whose request raised *)
C39_Tally ==
    PastQuery =>
        LET failed == SelectSeq(notion.requests, LAMBDA r : ~r.ok) IN
        /\ notion.updated = Len(SelectSeq(notion.requests, LAMBDA r : r.ok))
        /\ Len(notion.errors) = Len(failed)
        /\ \A k \in 1..Len(failed) : notion.errors[k] = failed[k].symbol
        /\ notion.updated + Len(notion.errors) = Len(notion.requests)

(* the call returns after a request for every symbol, whatever failed before *)
C39_ReturnsAfterAll ==
    notion.pc = "returned" =>
        /\ Len(notion.requests) = Len(notion.prices)
        /\ notion.updated + Len(notion.errors) = Len(notion.prices)

(* a failed query rejects the call before any request for a row, and nothing else
   rejects it *)
C39_QueryFailureRejects ==
    notion.pc = "rejected" =>
        /\ notion.requests = <<>>
        /\ notion.updated = 0 /\ notion.errors = <<>>

(* a request that raises is followed by the request of the next symbol *)
C39_FailureDoesNotStop ==
    (notion.pc = "rows" /\ notion.i <= Len(notion.prices)) =>
        (notion'.pc = "rows" /\ notion'.i = notion.i + 1)

(* C39: updatePriceDatabase isolates failures per symbol: a failure while creating or
   updating the row of one symbol does not stop the later symbols, each symbol is
   updated when an existing row matches it and created otherwise (never both), and on
   return updated + errors.length equals the number of input prices; a failure of the
   initial database query fails the whole call. *)
C39_PerSymbolIsolation ==
    /\ [](C39_UpdateOrCreate /\ C39_Tally /\ C39_ReturnsAfterAll
            /\ C39_QueryFailureRejects)
    /\ [][C39_FailureDoesNotStop]_vars

(* the request of the first symbol raised and the one of the second went through: one
   update, one create, updated = 1 and one entry in errors *)
C39_Witness ==
    /\ notion.pc = "returned"
    /\ Len(notion.prices) = 2
    /\ ~notion.requests[1].ok /\ notion.requests[2].ok
    /\ notion.requests[1].kind # notion.requests[2].kind
    /\ notion.updated = 1
    /\ notion.errors = <<notion.prices[1]>>

(* the query failed: the call is rejected *)
C39_WitnessRejected == notion.pc = "rejected" /\ Len(notion.prices) = 2

====
